---- MODULE Spec2Model ----
(***************************************************************************)
(* A model of the loxide pipeline: static resolver followed by the         *)
(* tree-walking evaluator, over a bounded family of parsed programs.       *)
(*                                                                         *)
(* Numbers are modelled by integers (the programs below stay inside the    *)
(* integers, where f64 arithmetic is exact).  Option<T> is modelled by a   *)
(* sequence of length 0 (None) or 1 (Some).  Environment(None) is the      *)
(* scope index 0; a scope is an index into the heap `scopes`; an           *)
(* instance's shared field map is an index into the heap `instances`.      *)
(***************************************************************************)
EXTENDS Integers, Sequences, FiniteSets, TLC

VARIABLES
    prog,         \* the input: which program, laid out how
    statements,   \* the parsed statement list handed to resolver and evaluator
    phase,        \* "scan" | "scanned" | "parse" | "parsed" | "aborted" |
                  \* "resolve" | "interpret" | "done" | "rejected"
    resolver,     \* Resolver { scopes, locals, current_fn, current_class }
    rerrors,      \* the `errors` vector of Resolver::run
    ri,           \* number of top-level statements Resolver::run has visited
    environment,  \* Interpreter.environment
    locals,       \* Interpreter.locals
    scopes,       \* heap of Scope { variables, enclosing }
    instances,    \* heap of instance field maps
    ctl,          \* what the evaluator is doing right now
    k,            \* the pending callers (the Rust call stack of visit_*)
    output,       \* the print sink
    result,       \* what interpret returned
    scanner,      \* Scanner { source, start, current, line }
    tokens,       \* the `tokens` vector of Scanner::scan_tokens
    errors,       \* the `errors` vector of Scanner::scan_tokens
    scanned,      \* what scan_tokens returned
    parser,       \* Parser { tokens, current }
    parse_errors, \* the `errors` vector of Parser::parse
    parsed        \* what parse returned

vars == <<prog, statements, phase, resolver, rerrors, ri, environment, locals,
          scopes, instances, ctl, k, output, result,
          scanner, tokens, errors, scanned, parser, parse_errors, parsed>>

scannerVars == <<scanner, tokens, errors, scanned>>

parserVars == <<parser, parse_errors, parsed>>

resolverVars == <<resolver, rerrors, ri>>

-----------------------------------------------------------------------------
(* Bounds of the input family *)

MaxVal == 2
MaxIter == 2

-----------------------------------------------------------------------------
(* Small helpers for maps and options *)

EmptyMap == [n \in {} |-> TRUE]

Put(m, key, v) == [n \in (DOMAIN m) \cup {key} |-> IF n = key THEN v ELSE m[n]]

None == <<>>

Some(x) == <<x>>

-----------------------------------------------------------------------------
(* Tokens and the AST *)

Token(token_type, lexeme, line) ==
    [token_type |-> token_type, lexeme |-> lexeme, line |-> line]

Ident(name, line) == Token("Identifier", name, line)

OpLexeme(t) ==
    CASE t = "Minus" -> "-" [] t = "Plus" -> "+" [] t = "Slash" -> "/"
      [] t = "Star" -> "*" [] t = "Bang" -> "!" [] t = "BangEqual" -> "!="
      [] t = "EqualEqual" -> "==" [] t = "Greater" -> ">"
      [] t = "GreaterEqual" -> ">=" [] t = "Less" -> "<"
      [] t = "LessEqual" -> "<=" [] t = "And" -> "and" [] t = "Or" -> "or"
      [] t = "RightParen" -> ")" [] t = "This" -> "this"
      [] t = "Return" -> "return"

Op(t, line) == Token(t, OpLexeme(t), line)

LitNil == [t |-> "Nil"]
LitNumber(n) == [t |-> "Number", n |-> n]
LitBool(b) == [t |-> "Bool", b |-> b]
LitString(s) == [t |-> "String", s |-> s]

Literal(lit) == [e |-> "Literal", value |-> lit]
Num(n) == Literal(LitNumber(n))
Grouping(expr) == [e |-> "Grouping", expr |-> expr]
Unary(t, line, right) == [e |-> "Unary", operator |-> Op(t, line), right |-> right]
Binary(left, t, line, right) ==
    [e |-> "Binary", left |-> left, operator |-> Op(t, line), right |-> right]
Logical(left, t, line, right) ==
    [e |-> "Logical", left |-> left, operator |-> Op(t, line), right |-> right]
Variable(name, line) == [e |-> "Variable", name |-> Ident(name, line)]
Assign(name, line, value) == [e |-> "Assign", name |-> Ident(name, line), value |-> value]
Call(callee, line, arguments) ==
    [e |-> "Call", callee |-> callee, paren |-> Op("RightParen", line),
     arguments |-> arguments]
Get(object, name, line) == [e |-> "Get", object |-> object, name |-> Ident(name, line)]
Set(object, name, line, value) ==
    [e |-> "Set", object |-> object, name |-> Ident(name, line), value |-> value]
This(line) == [e |-> "This", keyword |-> Op("This", line)]

FunctionDeclaration(name, line, params, body) ==
    [name |-> Ident(name, line),
     params |-> [i \in 1..Len(params) |-> Ident(params[i], line)],
     body |-> body]

Lambda(line, params, body) ==
    [e |-> "Lambda", declaration |-> FunctionDeclaration("<anonymous>", line, params, body)]

Expression(expr) == [s |-> "Expression", expr |-> expr]
PrintStmt(expr) == [s |-> "Print", expr |-> expr]
Var(name, line, initializer) ==
    [s |-> "Var", name |-> Ident(name, line), initializer |-> initializer]
Block(stmts) == [s |-> "Block", statements |-> stmts]
If(condition, then_branch, else_branch) ==
    [s |-> "If", condition |-> condition, then_branch |-> then_branch,
     else_branch |-> else_branch]
While(condition, body) == [s |-> "While", condition |-> condition, body |-> body]
Break == [s |-> "Break"]
Function(name, line, params, body) ==
    [s |-> "Function", declaration |-> FunctionDeclaration(name, line, params, body)]
Return(line, value) == [s |-> "Return", keyword |-> Op("Return", line), value |-> value]
Class(name, line, superclass, methods) ==
    [s |-> "Class", name |-> Ident(name, line), superclass |-> superclass,
     methods |-> methods]

(* mutant: the increment is put in front of the body *)
for_statement_increment_first(initializer, condition, increment, body) ==
    LET cond == IF condition = None THEN Literal(LitBool(TRUE)) ELSE condition[1]
        body1 == IF increment # None
                 THEN Block(<<Expression(increment[1]), body>>)
                 ELSE body
        body2 == While(cond, body1)
    IN  IF initializer # None THEN Block(<<initializer[1], body2>>) ELSE body2

(* Parser::for_statement: the desugaring of `for (I; C; U) B`.  initializer, *)
(* condition and increment are options; body is the parsed statement.       *)
for_statement(initializer, condition, increment, body) ==
    LET cond == IF condition = None THEN Literal(LitBool(TRUE)) ELSE condition[1]
        body1 == IF increment # None
                 THEN Block(<<body, Expression(increment[1])>>)
                 ELSE body
        body2 == While(cond, body1)
    IN  IF initializer # None THEN Block(<<initializer[1], body2>>) ELSE body2

-----------------------------------------------------------------------------
(* The resolver (resolver.rs).  Every operation takes the resolver state R  *)
(* and yields [R |-> state afterwards, err |-> "Ok" or the error]; an early *)
(* return through `?` leaves R as it is at that point.                      *)

ROk(R) == [R |-> R, err |-> "Ok"]
RErr(R, e) == [R |-> R, err |-> e]

ResolverNew ==
    [scopes |-> <<>>, locals |-> EmptyMap, current_fn |-> "None",
     current_class |-> "None"]

begin_scope(R) == [R EXCEPT !.scopes = Append(@, EmptyMap)]

end_scope(R) ==
    [R EXCEPT !.scopes = IF @ = <<>> THEN @ ELSE SubSeq(@, 1, Len(@) - 1)]

(* The loop of resolve_local: i runs over the scopes from the last one down *)
(* to the first, and every scope holding the name inserts its distance.     *)
RECURSIVE resolve_local_loop(_, _, _, _)
resolve_local_loop(R, expr, lexeme, i) ==
    IF i = 0 THEN R
    ELSE LET R1 == IF lexeme \in DOMAIN R.scopes[i]
                   THEN [R EXCEPT !.locals = Put(@, expr, Len(R.scopes) - i)]
                   ELSE R
         IN  resolve_local_loop(R1, expr, lexeme, i - 1)

resolve_local(R, expr, name) ==
    resolve_local_loop(R, expr, name.lexeme, Len(R.scopes))

declare(R, name) ==
    IF R.scopes = <<>> THEN ROk(R)
    ELSE LET top == Len(R.scopes) IN
         IF name.lexeme \in DOMAIN R.scopes[top]
         THEN RErr(R, "VariableAlreadyDeclared")
         ELSE ROk([R EXCEPT !.scopes[top] = Put(@, name.lexeme, FALSE)])

define(R, name) ==
    IF R.scopes = <<>> THEN R
    ELSE [R EXCEPT !.scopes[Len(R.scopes)] = Put(@, name.lexeme, TRUE)]

RECURSIVE resolver_visit_expr(_, _)
RECURSIVE resolver_visit_stmt(_, _)
RECURSIVE resolve(_, _, _)
RECURSIVE resolve_exprs(_, _, _)
RECURSIVE resolve_params(_, _, _)
RECURSIVE resolve_methods(_, _, _)
RECURSIVE resolve_function(_, _, _)

(* Resolver::resolve: try_for_each over the statements from index i on *)
resolve(R, stmts, i) ==
    IF i > Len(stmts) THEN ROk(R)
    ELSE LET r == resolver_visit_stmt(R, stmts[i]) IN
         IF r.err # "Ok" THEN r ELSE resolve(r.R, stmts, i + 1)

(* arguments.iter().try_for_each(visit_expr) *)
resolve_exprs(R, exprs, i) ==
    IF i > Len(exprs) THEN ROk(R)
    ELSE LET r == resolver_visit_expr(R, exprs[i]) IN
         IF r.err # "Ok" THEN r ELSE resolve_exprs(r.R, exprs, i + 1)

(* the parameter loop of resolve_function *)
resolve_params(R, params, i) ==
    IF i > Len(params) THEN ROk(R)
    ELSE LET d == declare(R, params[i]) IN
         IF d.err # "Ok" THEN d
         ELSE resolve_params(define(d.R, params[i]), params, i + 1)

resolve_function(R, declaration, fn_type) ==
    LET enclosing_fn == R.current_fn
        R1 == begin_scope([R EXCEPT !.current_fn = fn_type])
        p  == resolve_params(R1, declaration.params, 1)
    IN  IF p.err # "Ok" THEN p
        ELSE LET b == resolve(p.R, declaration.body, 1) IN
             IF b.err # "Ok" THEN b
             ELSE ROk([end_scope(b.R) EXCEPT !.current_fn = enclosing_fn])

(* the method loop of Stmt::Class *)
resolve_methods(R, methods, i) ==
    IF i > Len(methods) THEN ROk(R)
    ELSE LET r == resolve_function(R, methods[i], "Method") IN
         IF r.err # "Ok" THEN r ELSE resolve_methods(r.R, methods, i + 1)

resolver_visit_expr(R, expr) ==
    CASE expr.e = "Variable" ->
            IF /\ R.scopes # <<>>
               /\ expr.name.lexeme \in DOMAIN R.scopes[Len(R.scopes)]
               /\ R.scopes[Len(R.scopes)][expr.name.lexeme] = FALSE
            THEN RErr(R, "SelfReferencedInitializer")
            ELSE ROk(resolve_local(R, expr, expr.name))
      [] expr.e = "Assign" ->
            LET v == resolver_visit_expr(R, expr.value) IN
            IF v.err # "Ok" THEN v
            ELSE ROk(resolve_local(v.R, expr, expr.name))
      [] expr.e \in {"Binary", "Logical"} ->
            LET l == resolver_visit_expr(R, expr.left) IN
            IF l.err # "Ok" THEN l ELSE resolver_visit_expr(l.R, expr.right)
      [] expr.e = "Call" ->
            LET c == resolver_visit_expr(R, expr.callee) IN
            IF c.err # "Ok" THEN c ELSE resolve_exprs(c.R, expr.arguments, 1)
      [] expr.e = "Grouping" -> resolver_visit_expr(R, expr.expr)
      [] expr.e = "Literal" -> ROk(R)
      [] expr.e = "Unary" -> resolver_visit_expr(R, expr.right)
      [] expr.e = "Lambda" -> resolve_function(R, expr.declaration, "Function")
      [] expr.e = "Get" -> resolver_visit_expr(R, expr.object)
      [] expr.e = "Set" ->
            LET o == resolver_visit_expr(R, expr.object) IN
            IF o.err # "Ok" THEN o ELSE resolver_visit_expr(o.R, expr.value)
      [] expr.e = "This" ->
            IF R.current_class = "None" THEN RErr(R, "ThisOutsideClass")
            ELSE ROk(resolve_local(R, expr, expr.keyword))

resolver_visit_stmt(R, stmt) ==
    CASE stmt.s = "Block" ->
            LET b == resolve(begin_scope(R), stmt.statements, 1) IN
            IF b.err # "Ok" THEN b ELSE ROk(end_scope(b.R))
      [] stmt.s = "Var" ->
            LET d == declare(R, stmt.name) IN
            IF d.err # "Ok" THEN d
            ELSE LET i == IF stmt.initializer # None
                          THEN resolver_visit_expr(d.R, stmt.initializer[1])
                          ELSE ROk(d.R)
                 IN  IF i.err # "Ok" THEN i ELSE ROk(define(i.R, stmt.name))
      [] stmt.s = "Function" ->
            LET d == declare(R, stmt.declaration.name) IN
            IF d.err # "Ok" THEN d
            ELSE resolve_function(define(d.R, stmt.declaration.name),
                                  stmt.declaration, "Function")
      [] stmt.s \in {"Expression", "Print"} -> resolver_visit_expr(R, stmt.expr)
      [] stmt.s = "If" ->
            LET c == resolver_visit_expr(R, stmt.condition) IN
            IF c.err # "Ok" THEN c
            ELSE LET t == resolver_visit_stmt(c.R, stmt.then_branch) IN
                 IF t.err # "Ok" THEN t
                 ELSE IF stmt.else_branch # None
                      THEN resolver_visit_stmt(t.R, stmt.else_branch[1])
                      ELSE ROk(t.R)
      [] stmt.s = "Return" ->
            IF R.current_fn = "None" THEN RErr(R, "ReturnOutsideFunction")
            ELSE IF stmt.value # None
                 THEN resolver_visit_expr(R, stmt.value[1])
                 ELSE ROk(R)
      [] stmt.s = "While" ->
            LET c == resolver_visit_expr(R, stmt.condition) IN
            IF c.err # "Ok" THEN c ELSE resolver_visit_stmt(c.R, stmt.body)
      [] stmt.s = "Break" -> ROk(R)
      [] stmt.s = "Class" ->
            LET enclosing_class == R.current_class
                d == declare([R EXCEPT !.current_class = "Class"], stmt.name)
            IN  IF d.err # "Ok" THEN d
                ELSE LET R1 == begin_scope(define(d.R, stmt.name))
                         R2 == [R1 EXCEPT !.scopes[Len(R1.scopes)] =
                                             Put(@, "this", TRUE)]
                         m  == resolve_methods(R2, stmt.methods, 1)
                     IN  IF m.err # "Ok" THEN m
                         ELSE ROk([end_scope(m.R) EXCEPT
                                     !.current_class = enclosing_class])

-----------------------------------------------------------------------------
(* Runtime values (interpreter/value.rs) *)

VNil == [t |-> "Nil"]
VNumber(n) == [t |-> "Number", n |-> n]
VBool(b) == [t |-> "Bool", b |-> b]
VString(s) == [t |-> "String", s |-> s]
VNativeFunction(name, arity) == [t |-> "NativeFunction", name |-> name, arity |-> arity]
VFunction(declaration, closure, is_init) ==
    [t |-> "Function", declaration |-> declaration, closure |-> closure,
     is_init |-> is_init]
VClass(name, superclass, methods) ==
    [t |-> "Class", name |-> name, superclass |-> superclass, methods |-> methods]
VInstance(class, fields) == [t |-> "Instance", class |-> class, fields |-> fields]

is_truthy(v) == ~(v.t = "Nil" \/ (v.t = "Bool" /\ v.b = FALSE))

type_of(v) ==
    CASE v.t = "NativeFunction" -> "<native fn>"
      [] v.t = "Function" -> "<fn>"
      [] v.t = "Class" -> "<class>"
      [] v.t = "Instance" -> "<instance>"
      [] OTHER -> v.t

(* impl TryFrom<&Literal> for Value *)
ValueFromLiteral(lit) ==
    CASE lit.t = "Nil" -> VNil
      [] lit.t = "Bool" -> VBool(lit.b)
      [] lit.t = "Number" -> VNumber(lit.n)
      [] lit.t = "String" -> VString(lit.s)

(* impl PartialEq for Value *)
ValueEq(left, right) ==
    CASE left.t = "Number" /\ right.t = "Number" -> left.n = right.n
      [] left.t = "Bool" /\ right.t = "Bool" -> left.b = right.b
      [] left.t = "String" /\ right.t = "String" -> left.s = right.s
      [] left.t = "Nil" /\ right.t = "Nil" -> TRUE
      [] OTHER -> FALSE

(* impl fmt::Display for Value: the line handed to the print sink.  The     *)
(* Debug impls quote a function's name in backquotes, which a TLA+ string   *)
(* cannot hold; the name is rendered without them.                          *)
Display(v) ==
    CASE v.t = "Nil" -> "nil"
      [] v.t = "Bool" -> IF v.b THEN "true" ELSE "false"
      [] v.t = "Number" -> ToString(v.n)
      [] v.t = "String" -> v.s
      [] v.t = "NativeFunction" -> "<native fn " \o v.name \o ">"
      [] v.t = "Function" -> "<fn " \o v.declaration.name.lexeme \o ">"
      [] v.t = "Class" -> "<class " \o v.name \o ">"
      [] v.t = "Instance" -> "<instance of " \o v.class.name \o ">"

-----------------------------------------------------------------------------
(* Environments (interpreter/environment.rs), over a heap sc of scopes *)

globals == 1

enclosing(sc, env) == IF env = 0 THEN 0 ELSE sc[env].enclosing

RECURSIVE ancestor(_, _, _)
ancestor(sc, env, distance) ==
    IF distance = 0 THEN env ELSE ancestor(sc, enclosing(sc, env), distance - 1)

(* the heap after Environment::nest; the new scope is its last element *)
nest(sc, env) == Append(sc, [variables |-> EmptyMap, enclosing |-> env])

env_define(sc, env, name, value) ==
    IF env = 0 THEN sc ELSE [sc EXCEPT ![env].variables = Put(@, name, value)]

RECURSIVE lookup(_, _, _)
lookup(sc, env, name) ==
    IF env = 0 THEN None
    ELSE IF name \in DOMAIN sc[env].variables
         THEN Some(sc[env].variables[name])
         ELSE lookup(sc, enclosing(sc, env), name)

lookup_at(sc, env, distance, name) == lookup(sc, ancestor(sc, env, distance), name)

RECURSIVE assign(_, _, _, _)
assign(sc, env, name, value) ==
    IF env = 0 THEN [ok |-> FALSE, scopes |-> sc]
    ELSE IF name \in DOMAIN sc[env].variables
         THEN [ok |-> TRUE, scopes |-> [sc EXCEPT ![env].variables[name] = value]]
         ELSE assign(sc, enclosing(sc, env), name, value)

assign_at(sc, env, distance, name, value) ==
    assign(sc, ancestor(sc, env, distance), name, value)

-----------------------------------------------------------------------------
(* Functions and classes (interpreter/functions.rs, interpreter/classes.rs) *)

RECURSIVE find_method(_, _)
find_method(class, name) ==
    IF name \in DOMAIN class.methods THEN Some(class.methods[name])
    ELSE IF class.superclass # None THEN find_method(class.superclass[1], name)
    ELSE None

(* mutant: a class takes its arity from an `init` of its own only *)
arity_own_init(callable) ==
    CASE callable.t = "NativeFunction" -> callable.arity
      [] callable.t = "Function" -> Len(callable.declaration.params)
      [] callable.t = "Class" ->
            IF "init" \in DOMAIN callable.methods
            THEN Len(callable.methods["init"].declaration.params)
            ELSE 0

(* Callable::arity of NativeFunction, Function and Class *)
arity(callable) ==
    CASE callable.t = "NativeFunction" -> callable.arity
      [] callable.t = "Function" -> Len(callable.declaration.params)
      [] callable.t = "Class" ->
            IF find_method(callable, "init") # None
            THEN Len(find_method(callable, "init")[1].declaration.params)
            ELSE 0

(* Function::bind: the heap afterwards and the bound function *)
bind(sc, function, instance) ==
    LET sc1 == nest(sc, function.closure)
        env == Len(sc1)
    IN  [scopes |-> env_define(sc1, env, "this", instance),
         function |-> [function EXCEPT !.closure = env]]

(* the zip loop of Function::call defining the parameters *)
RECURSIVE define_params(_, _, _, _, _)
define_params(sc, env, params, arguments, i) ==
    IF i > Len(params) \/ i > Len(arguments) THEN sc
    ELSE define_params(env_define(sc, env, params[i].lexeme, arguments[i]),
                       env, params, arguments, i + 1)

(* the method loop of Stmt::Class building class_methods *)
RECURSIVE class_methods(_, _, _, _)
class_methods(methods, env, i, acc) ==
    IF i > Len(methods) THEN acc
    ELSE class_methods(methods, env, i + 1,
            Put(acc, methods[i].name.lexeme,
                VFunction(methods[i], env, methods[i].name.lexeme = "init")))

-----------------------------------------------------------------------------
(* Evaluator control: ctl is one of these *)

CtlExec(stmt) == [m |-> "exec", s |-> stmt]
CtlEval(expr) == [m |-> "eval", e |-> expr]
CtlVal(v) == [m |-> "val", v |-> v]
CtlOk == [m |-> "ok"]
CtlErr(err) == [m |-> "err", err |-> err]

invalid_operand_error(operator, expected, found) ==
    CtlErr([kind |-> "InvalidOperand", operator |-> operator.token_type,
            expected |-> expected, found |-> found])

(* the numeric arms of Expr::Binary share this shape *)
numeric(operator, left, right, v) ==
    IF left.t = "Number" /\ right.t = "Number" THEN CtlVal(v)
    ELSE IF left.t = "Number" THEN invalid_operand_error(operator, <<"Number">>, right)
    ELSE invalid_operand_error(operator, <<"Number">>, left)

(* l / r on the integers the programs use (exact quotients only) *)
Quotient(l, r) == IF r > 0 /\ l >= 0 THEN l \div r ELSE 0

unary_op(operator, right) ==
    CASE operator.token_type = "Minus" ->
            IF right.t = "Number" THEN CtlVal(VNumber(0 - right.n))
            ELSE invalid_operand_error(operator, <<"Number">>, right)
      [] operator.token_type = "Bang" -> CtlVal(VBool(~is_truthy(right)))
      [] OTHER -> CtlErr([kind |-> "UnsupportedUnary",
                          operator |-> operator.token_type, value |-> right])

binary_op(operator, left, right) ==
    LET t == operator.token_type
        nums == left.t = "Number" /\ right.t = "Number"
    IN  CASE t = "Minus" ->
                numeric(operator, left, right, IF nums THEN VNumber(left.n - right.n) ELSE VNil)
          [] t = "Slash" ->
                numeric(operator, left, right,
                        IF nums THEN VNumber(Quotient(left.n, right.n)) ELSE VNil)
          [] t = "Star" ->
                numeric(operator, left, right, IF nums THEN VNumber(left.n * right.n) ELSE VNil)
          [] t = "Plus" ->
                IF nums THEN CtlVal(VNumber(left.n + right.n))
                ELSE IF left.t = "String" /\ right.t = "String"
                     THEN CtlVal(VString(left.s \o right.s))
                ELSE IF left.t = "Number"
                     THEN invalid_operand_error(operator, <<"Number">>, right)
                ELSE IF left.t = "String"
                     THEN invalid_operand_error(operator, <<"String">>, right)
                ELSE invalid_operand_error(operator, <<"Number", "String">>, left)
          [] t = "Greater" ->
                numeric(operator, left, right, IF nums THEN VBool(left.n > right.n) ELSE VNil)
          [] t = "GreaterEqual" ->
                numeric(operator, left, right, IF nums THEN VBool(left.n >= right.n) ELSE VNil)
          [] t = "Less" ->
                numeric(operator, left, right, IF nums THEN VBool(left.n < right.n) ELSE VNil)
          [] t = "LessEqual" ->
                numeric(operator, left, right, IF nums THEN VBool(left.n <= right.n) ELSE VNil)
          [] t = "BangEqual" -> CtlVal(VBool(~ValueEq(left, right)))
          [] t = "EqualEqual" -> CtlVal(VBool(ValueEq(left, right)))
          [] OTHER -> CtlErr([kind |-> "UnsupportedBinary", operator |-> t,
                              left |-> left, right |-> right])

(* mutant: dynamic lookup from the current environment, no binding table *)
lookup_variable_dynamic(sc, env, loc, name, expr) ==
    LET value == lookup(sc, env, name.lexeme)
    IN  IF value # None THEN CtlVal(value[1])
        ELSE CtlErr([kind |-> "UndefinedVariable", name |-> name.lexeme])

(* Interpreter::lookup_variable *)
lookup_variable(sc, env, loc, name, expr) ==
    LET value == IF expr \in DOMAIN loc
                 THEN lookup_at(sc, env, loc[expr], name.lexeme)
                 ELSE lookup(sc, globals, name.lexeme)
    IN  IF value # None THEN CtlVal(value[1])
        ELSE CtlErr([kind |-> "UndefinedVariable", name |-> name.lexeme])

(* mutant: a method of the class wins over a field of the instance *)
instance_get_method_first(sc, inst, instance, name) ==
    LET method == find_method(instance.class, name.lexeme) IN
    IF method # None
    THEN IF method[1].t = "Function"
         THEN LET b == bind(sc, method[1], instance)
              IN  [scopes |-> b.scopes, value |-> Some(b.function)]
         ELSE [scopes |-> sc, value |-> method]
    ELSE IF name.lexeme \in DOMAIN inst[instance.fields]
    THEN [scopes |-> sc, value |-> Some(inst[instance.fields][name.lexeme])]
    ELSE [scopes |-> sc, value |-> None]

(* Instance::get: the heap afterwards (bind allocates) and the option found *)
instance_get(sc, inst, instance, name) ==
    IF name.lexeme \in DOMAIN inst[instance.fields]
    THEN [scopes |-> sc, value |-> Some(inst[instance.fields][name.lexeme])]
    ELSE LET method == find_method(instance.class, name.lexeme) IN
         IF method = None THEN [scopes |-> sc, value |-> None]
         ELSE IF method[1].t = "Function"
              THEN LET b == bind(sc, method[1], instance)
                   IN  [scopes |-> b.scopes, value |-> Some(b.function)]
              ELSE [scopes |-> sc, value |-> method]

-----------------------------------------------------------------------------
(* The evaluator as a machine.  k holds one frame per pending Rust call     *)
(* that still has work to do when its callee returns; the last element is   *)
(* the innermost caller.                                                    *)

Top == k[Len(k)]
Pop == SubSeq(k, 1, Len(k) - 1)
Push(frame) == Append(k, frame)
ReplaceTop(frame) == [k EXCEPT ![Len(k)] = frame]

AtExec(kind) == phase = "interpret" /\ ctl.m = "exec" /\ ctl.s.s = kind
AtEval(kind) == phase = "interpret" /\ ctl.m = "eval" /\ ctl.e.e = kind
AtVal(frame) == phase = "interpret" /\ ctl.m = "val" /\ Top.f = frame
AtOk(frame) == phase = "interpret" /\ ctl.m = "ok" /\ Top.f = frame
AtErr(frame) == phase = "interpret" /\ ctl.m = "err" /\ Top.f = frame

fixedVars == <<prog, statements, resolver, rerrors, ri, locals, scannerVars,
               parserVars>>

Go(c, kk) == ctl' = c /\ k' = kk /\ UNCHANGED <<fixedVars, phase, result>>

Pure == UNCHANGED <<environment, scopes, instances, output>>

(* frames whose owner forwards an error with `?` *)
PropagatingFrames ==
    {"Expression", "Print", "Var", "If", "WhileCond", "Return", "ClassSuper",
     "Unary", "BinaryLeft", "BinaryRight", "Assign", "Logical", "CallCallee",
     "CallArgs", "Get", "SetObject", "SetValue", "ClassCall"}

(* visit_stmt, Stmt::Expression *)
StmtExpression ==
    \/ /\ AtExec("Expression")
       /\ Go(CtlEval(ctl.s.expr), Push([f |-> "Expression"]))
       /\ Pure
    \/ /\ AtVal("Expression")
       /\ Go(CtlOk, Pop)
       /\ Pure

(* visit_stmt, Stmt::Print *)
StmtPrint ==
    \/ /\ AtExec("Print")
       /\ Go(CtlEval(ctl.s.expr), Push([f |-> "Print"]))
       /\ Pure
    \/ /\ AtVal("Print")
       /\ Go(CtlOk, Pop)
       /\ output' = Append(output, Display(ctl.v))
       /\ UNCHANGED <<environment, scopes, instances>>

(* visit_stmt, Stmt::Var *)
StmtVar ==
    \/ /\ AtExec("Var")
       /\ IF ctl.s.initializer # None
          THEN /\ Go(CtlEval(ctl.s.initializer[1]), Push([f |-> "Var", name |-> ctl.s.name]))
               /\ Pure
          ELSE /\ Go(CtlOk, k)
               /\ scopes' = env_define(scopes, environment, ctl.s.name.lexeme, VNil)
               /\ UNCHANGED <<environment, instances, output>>
    \/ /\ AtVal("Var")
       /\ Go(CtlOk, Pop)
       /\ scopes' = env_define(scopes, environment, Top.name.lexeme, ctl.v)
       /\ UNCHANGED <<environment, instances, output>>

(* mutant: the restore is skipped when the body failed *)
execute_block_restore_ok_only(current, block_env, res) ==
    IF res.m = "err" THEN block_env ELSE current

(* execute_block: the environment in force once the block has been left,   *)
(* given the saved one, the block's own and the block's result             *)
execute_block_restore(current, block_env, res) == current

(* visit_stmt, Stmt::Block: execute_block(statements, environment.nest()) *)
StmtBlock ==
    /\ AtExec("Block")
    /\ scopes' = nest(scopes, environment)
    /\ environment' = Len(scopes) + 1
    /\ Go(CtlOk, Push([f |-> "Block", statements |-> ctl.s.statements, i |-> 0,
                       current |-> environment, env |-> Len(scopes) + 1]))
    /\ UNCHANGED <<instances, output>>

(* execute_block: the try_for_each loop, then the restore *)
ExecuteBlock ==
    \/ /\ AtOk("Block")
       /\ Top.i < Len(Top.statements)
       /\ Go(CtlExec(Top.statements[Top.i + 1]), ReplaceTop([Top EXCEPT !.i = @ + 1]))
       /\ Pure
    \/ /\ phase = "interpret"
       /\ Top.f = "Block"
       /\ ctl.m = "err" \/ (ctl.m = "ok" /\ Top.i = Len(Top.statements))
       /\ environment' = execute_block_restore(Top.current, environment, ctl)
       /\ Go(ctl, Pop)
       /\ UNCHANGED <<scopes, instances, output>>

(* visit_stmt, Stmt::If *)
StmtIf ==
    \/ /\ AtExec("If")
       /\ Go(CtlEval(ctl.s.condition), Push([f |-> "If", stmt |-> ctl.s]))
       /\ Pure
    \/ /\ AtVal("If")
       /\ IF is_truthy(ctl.v) THEN Go(CtlExec(Top.stmt.then_branch), Pop)
          ELSE IF Top.stmt.else_branch # None
               THEN Go(CtlExec(Top.stmt.else_branch[1]), Pop)
               ELSE Go(CtlOk, Pop)
       /\ Pure

(* mutant: the loop forwards Break like any other error *)
while_body_result_no_trap(res) ==
    IF res.m = "err" THEN "propagate" ELSE "continue"

(* Stmt::While: what the loop does with the result of its body *)
while_body_result(res) ==
    IF res.m = "err" /\ res.err.kind = "Break" THEN "break"
    ELSE IF res.m = "err" THEN "propagate"
    ELSE "continue"

(* visit_stmt, Stmt::While *)
StmtWhile ==
    \/ /\ AtExec("While")
       /\ Go(CtlEval(ctl.s.condition), Push([f |-> "WhileCond", stmt |-> ctl.s]))
       /\ Pure
    \/ /\ AtVal("WhileCond")
       /\ IF is_truthy(ctl.v)
          THEN Go(CtlExec(Top.stmt.body), ReplaceTop([f |-> "WhileBody", stmt |-> Top.stmt]))
          ELSE Go(CtlOk, Pop)
       /\ Pure
    \/ /\ phase = "interpret"
       /\ ctl.m \in {"ok", "err"}
       /\ Top.f = "WhileBody"
       /\ CASE while_body_result(ctl) = "break" -> Go(CtlOk, Pop)
            [] while_body_result(ctl) = "propagate" -> Go(ctl, Pop)
            [] OTHER -> Go(CtlEval(Top.stmt.condition),
                           ReplaceTop([f |-> "WhileCond", stmt |-> Top.stmt]))
       /\ Pure

(* visit_stmt, Stmt::Break *)
StmtBreak ==
    /\ AtExec("Break")
    /\ Go(CtlErr([kind |-> "Break"]), k)
    /\ Pure

(* visit_stmt, Stmt::Function *)
StmtFunction ==
    /\ AtExec("Function")
    /\ scopes' = env_define(scopes, environment, ctl.s.declaration.name.lexeme,
                            VFunction(ctl.s.declaration, environment, FALSE))
    /\ Go(CtlOk, k)
    /\ UNCHANGED <<environment, instances, output>>

(* visit_stmt, Stmt::Return *)
StmtReturn ==
    \/ /\ AtExec("Return")
       /\ IF ctl.s.value # None
          THEN Go(CtlEval(ctl.s.value[1]), Push([f |-> "Return"]))
          ELSE Go(CtlErr([kind |-> "Return", value |-> VNil]), k)
       /\ Pure
    \/ /\ AtVal("Return")
       /\ Go(CtlErr([kind |-> "Return", value |-> ctl.v]), Pop)
       /\ Pure

(* Stmt::Class after the superclass has been evaluated: the heap afterwards *)
define_class(sc, env, stmt, superclass) ==
    LET sc1 == env_define(sc, env, stmt.name.lexeme, VNil)
        class == VClass(stmt.name.lexeme, superclass,
                        class_methods(stmt.methods, env, 1, EmptyMap))
    IN  assign(sc1, env, stmt.name.lexeme, class).scopes

(* visit_stmt, Stmt::Class *)
StmtClass ==
    \/ /\ AtExec("Class")
       /\ IF ctl.s.superclass # None
          THEN /\ Go(CtlEval(ctl.s.superclass[1]), Push([f |-> "ClassSuper", stmt |-> ctl.s]))
               /\ Pure
          ELSE /\ Go(CtlOk, k)
               /\ scopes' = define_class(scopes, environment, ctl.s, None)
               /\ UNCHANGED <<environment, instances, output>>
    \/ /\ AtVal("ClassSuper")
       /\ IF ctl.v.t = "Class"
          THEN /\ Go(CtlOk, Pop)
               /\ scopes' = define_class(scopes, environment, Top.stmt, Some(ctl.v))
               /\ UNCHANGED <<environment, instances, output>>
          ELSE /\ Go(CtlErr([kind |-> "SuperclassNotAClass", value |-> ctl.v]), Pop)
               /\ Pure

(* visit_expr, Expr::Literal *)
ExprLiteral ==
    /\ AtEval("Literal")
    /\ Go(CtlVal(ValueFromLiteral(ctl.e.value)), k)
    /\ Pure

(* visit_expr, Expr::Grouping *)
ExprGrouping ==
    /\ AtEval("Grouping")
    /\ Go(CtlEval(ctl.e.expr), k)
    /\ Pure

(* visit_expr, Expr::Unary *)
ExprUnary ==
    \/ /\ AtEval("Unary")
       /\ Go(CtlEval(ctl.e.right), Push([f |-> "Unary", operator |-> ctl.e.operator]))
       /\ Pure
    \/ /\ AtVal("Unary")
       /\ Go(unary_op(Top.operator, ctl.v), Pop)
       /\ Pure

(* visit_expr, Expr::Binary *)
ExprBinary ==
    \/ /\ AtEval("Binary")
       /\ Go(CtlEval(ctl.e.left), Push([f |-> "BinaryLeft", expr |-> ctl.e]))
       /\ Pure
    \/ /\ AtVal("BinaryLeft")
       /\ Go(CtlEval(Top.expr.right),
             ReplaceTop([f |-> "BinaryRight", expr |-> Top.expr, left |-> ctl.v]))
       /\ Pure
    \/ /\ AtVal("BinaryRight")
       /\ Go(binary_op(Top.expr.operator, Top.left, ctl.v), Pop)
       /\ Pure

(* visit_expr, Expr::Variable | Expr::This *)
ExprVariable ==
    /\ phase = "interpret"
    /\ ctl.m = "eval"
    /\ ctl.e.e \in {"Variable", "This"}
    /\ Go(lookup_variable(scopes, environment, locals,
                          IF ctl.e.e = "Variable" THEN ctl.e.name ELSE ctl.e.keyword,
                          ctl.e), k)
    /\ Pure

(* mutant: assignment binds the name in the current scope *)
assign_variable_defines(sc, env, loc, expr, value) ==
    [ok |-> TRUE, scopes |-> env_define(sc, env, expr.name.lexeme, value)]

(* mutant: an assignment that finds no binding creates a global *)
assign_variable_implicit_global(sc, env, loc, expr, value) ==
    LET r == IF expr \in DOMAIN loc
             THEN assign_at(sc, env, loc[expr], expr.name.lexeme, value)
             ELSE assign(sc, globals, expr.name.lexeme, value)
    IN  IF r.ok THEN r
        ELSE [ok |-> TRUE, scopes |-> env_define(sc, globals, expr.name.lexeme, value)]

(* Expr::Assign once the value is known: success flag and heap afterwards *)
assign_variable(sc, env, loc, expr, value) ==
    IF expr \in DOMAIN loc
    THEN assign_at(sc, env, loc[expr], expr.name.lexeme, value)
    ELSE assign(sc, globals, expr.name.lexeme, value)

(* visit_expr, Expr::Assign *)
ExprAssign ==
    \/ /\ AtEval("Assign")
       /\ Go(CtlEval(ctl.e.value), Push([f |-> "Assign", expr |-> ctl.e]))
       /\ Pure
    \/ /\ AtVal("Assign")
       /\ LET r == assign_variable(scopes, environment, locals, Top.expr, ctl.v) IN
          /\ scopes' = r.scopes
          /\ IF r.ok THEN Go(ctl, Pop)
             ELSE Go(CtlErr([kind |-> "UndefinedVariable",
                             name |-> Top.expr.name.lexeme]), Pop)
       /\ UNCHANGED <<environment, instances, output>>

(* Expr::Logical: whether the left operand decides the result *)
(* mutant: `and` stops on a truthy left operand, like `or` *)
short_circuits_and_like_or(operator, left) == is_truthy(left)

short_circuits(operator, left) ==
    IF operator.token_type = "Or" THEN is_truthy(left) ELSE ~is_truthy(left)

(* visit_expr, Expr::Logical *)
ExprLogical ==
    \/ /\ AtEval("Logical")
       /\ Go(CtlEval(ctl.e.left), Push([f |-> "Logical", expr |-> ctl.e]))
       /\ Pure
    \/ /\ AtVal("Logical")
       /\ IF short_circuits(Top.expr.operator, ctl.v) THEN Go(ctl, Pop)
          ELSE Go(CtlEval(Top.expr.right), Pop)
       /\ Pure

(* what the native `clock` may yield: some time, or SystemTimeError *)
MaxClock == 1

ClockOutcomes ==
    {CtlVal(VNumber(t)) : t \in 0..MaxClock} \cup {CtlErr([kind |-> "SystemTimeError"])}

(* mutant: the body runs in the closure itself, no scope per call *)
FunctionCallEnterNoScope(sc, function, arguments, frames) ==
    /\ scopes' = define_params(sc, function.closure, function.declaration.params,
                               arguments, 1)
    /\ environment' = function.closure
    /\ Go(CtlOk, frames \o
            <<[f |-> "FunctionCall", function |-> function],
              [f |-> "Block", statements |-> function.declaration.body, i |-> 0,
               current |-> environment, env |-> function.closure]>>)

(* Function::call up to and including the entry into execute_block, on the *)
(* heap sc, with `frames` the callers that stay pending                    *)
FunctionCallEnter(sc, function, arguments, frames) ==
    LET sc1 == nest(sc, function.closure)
        env == Len(sc1)
    IN  /\ scopes' = define_params(sc1, env, function.declaration.params, arguments, 1)
        /\ environment' = env
        /\ Go(CtlOk, frames \o
                <<[f |-> "FunctionCall", function |-> function],
                  [f |-> "Block", statements |-> function.declaration.body, i |-> 0,
                   current |-> environment, env |-> env]>>)

(* Class::call up to and including the entry into the initializer *)
ClassCallEnter(class, arguments, frames) ==
    LET instance == VInstance(class, Len(instances) + 1)
        init == find_method(class, "init")
    IN  /\ instances' = Append(instances, EmptyMap)
        /\ IF init # None
           THEN LET b == bind(scopes, init[1], instance) IN
                FunctionCallEnter(b.scopes, b.function, arguments,
                                  Append(frames, [f |-> "ClassCall", instance |-> instance]))
           ELSE /\ Go(CtlVal(instance), frames)
                /\ UNCHANGED <<environment, scopes>>

(* Expr::Call from the arity check on *)
Invoke(callable, arguments, frames) ==
    IF Len(arguments) # arity(callable)
    THEN /\ Go(CtlErr([kind |-> "InvalidArgumentCount", expected |-> arity(callable),
                       found |-> Len(arguments)]), frames)
         /\ Pure
    ELSE CASE callable.t = "NativeFunction" ->
                /\ \E outcome \in ClockOutcomes : Go(outcome, frames)
                /\ Pure
           [] callable.t = "Function" ->
                /\ FunctionCallEnter(scopes, callable, arguments, frames)
                /\ UNCHANGED <<instances, output>>
           [] callable.t = "Class" ->
                /\ ClassCallEnter(callable, arguments, frames)
                /\ UNCHANGED output

(* mutant: the arity is checked before the arguments are evaluated *)
ExprCallArityFirst ==
    \/ /\ AtEval("Call")
       /\ Go(CtlEval(ctl.e.callee), Push([f |-> "CallCallee", expr |-> ctl.e]))
       /\ Pure
    \/ /\ AtVal("CallCallee")
       /\ IF ctl.v.t \notin {"NativeFunction", "Function", "Class"}
          THEN /\ Go(CtlErr([kind |-> "NotCallable", value |-> ctl.v]), Pop)
               /\ Pure
          ELSE IF Top.expr.arguments = <<>> \/ Len(Top.expr.arguments) # arity(ctl.v)
               THEN Invoke(ctl.v, Top.expr.arguments, Pop)
               ELSE /\ Go(CtlEval(Top.expr.arguments[1]),
                          ReplaceTop([f |-> "CallArgs", expr |-> Top.expr,
                                      callable |-> ctl.v, arguments |-> <<>>]))
                    /\ Pure
    \/ /\ AtVal("CallArgs")
       /\ LET arguments == Append(Top.arguments, ctl.v) IN
          IF Len(arguments) < Len(Top.expr.arguments)
          THEN /\ Go(CtlEval(Top.expr.arguments[Len(arguments) + 1]),
                     ReplaceTop([Top EXCEPT !.arguments = arguments]))
               /\ Pure
          ELSE Invoke(Top.callable, arguments, Pop)

(* visit_expr, Expr::Call *)
ExprCall ==
    \/ /\ AtEval("Call")
       /\ Go(CtlEval(ctl.e.callee), Push([f |-> "CallCallee", expr |-> ctl.e]))
       /\ Pure
    \/ /\ AtVal("CallCallee")
       /\ IF ctl.v.t \notin {"NativeFunction", "Function", "Class"}
          THEN /\ Go(CtlErr([kind |-> "NotCallable", value |-> ctl.v]), Pop)
               /\ Pure
          ELSE IF Top.expr.arguments = <<>>
               THEN Invoke(ctl.v, <<>>, Pop)
               ELSE /\ Go(CtlEval(Top.expr.arguments[1]),
                          ReplaceTop([f |-> "CallArgs", expr |-> Top.expr,
                                      callable |-> ctl.v, arguments |-> <<>>]))
                    /\ Pure
    \/ /\ AtVal("CallArgs")
       /\ LET arguments == Append(Top.arguments, ctl.v) IN
          IF Len(arguments) < Len(Top.expr.arguments)
          THEN /\ Go(CtlEval(Top.expr.arguments[Len(arguments) + 1]),
                     ReplaceTop([Top EXCEPT !.arguments = arguments]))
               /\ Pure
          ELSE Invoke(Top.callable, arguments, Pop)

(* mutant: the call forwards a Return like any other error *)
function_call_result_no_catch(sc, function, res) ==
    IF function.is_init
    THEN LET this == lookup_at(sc, function.closure, 0, "this") IN
         IF this # None THEN CtlVal(this[1]) ELSE CtlErr([kind |-> "Panic"])
    ELSE IF res.m = "ok" THEN CtlVal(VNil)
    ELSE res

(* mutant: an initializer is treated like any other function *)
function_call_result_no_init(sc, function, res) ==
    IF res.m = "err" /\ res.err.kind = "Return" THEN CtlVal(res.err.value)
    ELSE IF res.m = "ok" THEN CtlVal(VNil)
    ELSE res

(* Function::call: what the call yields once execute_block has returned res *)
function_call_result(sc, function, res) ==
    IF function.is_init
    THEN LET this == lookup_at(sc, function.closure, 0, "this") IN
         IF this # None THEN CtlVal(this[1]) ELSE CtlErr([kind |-> "Panic"])
    ELSE IF res.m = "err" /\ res.err.kind = "Return" THEN CtlVal(res.err.value)
    ELSE IF res.m = "ok" THEN CtlVal(VNil)
    ELSE res

(* Function::call after execute_block *)
FunctionCallResult ==
    /\ phase = "interpret"
    /\ ctl.m \in {"ok", "err"}
    /\ Top.f = "FunctionCall"
    /\ Go(function_call_result(scopes, Top.function, ctl), Pop)
    /\ Pure

(* Class::call after the initializer returned Ok *)
ClassCallResult ==
    /\ AtVal("ClassCall")
    /\ Go(CtlVal(Top.instance), Pop)
    /\ Pure

(* visit_expr, Expr::Lambda *)
ExprLambda ==
    /\ AtEval("Lambda")
    /\ Go(CtlVal(VFunction(ctl.e.declaration, environment, FALSE)), k)
    /\ Pure

(* visit_expr, Expr::Get *)
ExprGet ==
    \/ /\ AtEval("Get")
       /\ Go(CtlEval(ctl.e.object), Push([f |-> "Get", expr |-> ctl.e]))
       /\ Pure
    \/ /\ AtVal("Get")
       /\ IF ctl.v.t = "Instance"
          THEN LET g == instance_get(scopes, instances, ctl.v, Top.expr.name) IN
               /\ scopes' = g.scopes
               /\ IF g.value # None THEN Go(CtlVal(g.value[1]), Pop)
                  ELSE Go(CtlErr([kind |-> "UndefinedProperty",
                                  property |-> Top.expr.name.lexeme, value |-> ctl.v]), Pop)
          ELSE /\ Go(CtlErr([kind |-> "PropertyOnNonObject",
                             property |-> Top.expr.name.lexeme, value |-> ctl.v]), Pop)
               /\ UNCHANGED scopes
       /\ UNCHANGED <<environment, instances, output>>

(* mutant: the write goes to a private copy of the field map *)
instance_set_copy(inst, instance, name, value) == inst

(* Instance::set: the instance heap afterwards *)
instance_set(inst, instance, name, value) ==
    [inst EXCEPT ![instance.fields] = Put(@, name.lexeme, value)]

(* visit_expr, Expr::Set *)
ExprSet ==
    \/ /\ AtEval("Set")
       /\ Go(CtlEval(ctl.e.object), Push([f |-> "SetObject", expr |-> ctl.e]))
       /\ Pure
    \/ /\ AtVal("SetObject")
       /\ IF ctl.v.t = "Instance"
          THEN Go(CtlEval(Top.expr.value),
                  ReplaceTop([f |-> "SetValue", expr |-> Top.expr, instance |-> ctl.v]))
          ELSE Go(CtlErr([kind |-> "PropertyOnNonObject",
                          property |-> Top.expr.name.lexeme, value |-> ctl.v]), Pop)
       /\ Pure
    \/ /\ AtVal("SetValue")
       /\ instances' = instance_set(instances, Top.instance, Top.expr.name, ctl.v)
       /\ Go(ctl, Pop)
       /\ UNCHANGED <<environment, scopes, output>>

(* an error returned through `?` by a caller that does not handle it *)
Propagate ==
    /\ phase = "interpret"
    /\ ctl.m = "err"
    /\ Top.f \in PropagatingFrames
    /\ Go(ctl, Pop)
    /\ Pure

(* Interpreter::interpret: the loop over the top-level statements *)
Interpret ==
    \/ /\ AtOk("Interpret")
       /\ Top.i < Len(statements)
       /\ Go(CtlExec(statements[Top.i + 1]), ReplaceTop([Top EXCEPT !.i = @ + 1]))
       /\ Pure
    \/ /\ AtOk("Interpret")
       /\ Top.i = Len(statements)
       /\ phase' = "done"
       /\ result' = [r |-> "Ok"]
       /\ k' = Pop
       /\ UNCHANGED <<fixedVars, ctl, environment, scopes, instances, output>>
    \/ /\ AtErr("Interpret")
       /\ phase' = "done"
       /\ result' = [r |-> "Err", err |-> ctl.err]
       /\ k' = Pop
       /\ UNCHANGED <<fixedVars, ctl, environment, scopes, instances, output>>

-----------------------------------------------------------------------------
(* Resolver::run and the hand-over to the interpreter (Loxide::run) *)

interpreterVars == <<environment, locals, scopes, instances, ctl, k, output, result>>

(* Resolver::run: one turn of the loop over the top-level statements *)
ResolverRun ==
    /\ phase = "resolve"
    /\ ri < Len(statements)
    /\ LET r == resolver_visit_stmt(resolver, statements[ri + 1]) IN
       /\ resolver' = r.R
       /\ rerrors' = IF r.err = "Ok" THEN rerrors ELSE Append(rerrors, r.err)
    /\ ri' = ri + 1
    /\ UNCHANGED <<prog, statements, phase, interpreterVars, scannerVars,
                   parserVars>>

(* Interpreter::new: the global scope with `clock` defined *)
InterpreterNewScopes ==
    env_define(nest(<<>>, 0), 1, "clock", VNativeFunction("clock", 0))

(* Resolver::run after the loop, then Interpreter::new(locals) *)
ResolverFinish ==
    /\ phase = "resolve"
    /\ ri = Len(statements)
    /\ \/ /\ rerrors = <<>>
          /\ phase' = "interpret"
          /\ locals' = resolver.locals
          /\ scopes' = InterpreterNewScopes
          /\ environment' = globals
          /\ ctl' = CtlOk
          /\ k' = <<[f |-> "Interpret", i |-> 0]>>
          /\ UNCHANGED <<prog, statements, resolverVars, instances, output, result,
                         scannerVars, parserVars>>
       \/ /\ rerrors # <<>>
          /\ phase' = "rejected"
          /\ UNCHANGED <<prog, statements, resolverVars, interpreterVars,
                         scannerVars, parserVars>>

-----------------------------------------------------------------------------
(* The input family.  A program is identified by its name, its layout over  *)
(* source lines and two small parameters.  Layout "one" puts every token on *)
(* line 1, "stmt" puts each statement on a line of its own, "spread" gives  *)
(* every clause its own line.                                               *)

Layouts == {"one", "stmt", "spread"}

Line(layout, stmtLine, spreadLine) ==
    CASE layout = "one" -> 1
      [] layout = "stmt" -> stmtLine
      [] layout = "spread" -> spreadLine

Id(name, layout, a, b) == [name |-> name, layout |-> layout, a |-> a, b |-> b]

(* var x = 1; { var x = 2; { var x = 3; print x; } print x; } print x; *)
ProgNested(p) ==
    LET ln(n) == Line(p.layout, n, n) IN
    << Var("x", ln(1), Some(Num(1))),
       Block(<< Var("x", ln(2), Some(Num(2))),
                Block(<< Var("x", ln(3), Some(Num(3))),
                         PrintStmt(Variable("x", ln(4))) >>),
                PrintStmt(Variable("x", ln(5))) >>),
       PrintStmt(Variable("x", ln(6))) >>

(* for (var i = 0; i < a + 1; i = i + 1) { if (i == a) break; print i; } *)
ProgFor(p) ==
    LET ln(s, n) == Line(p.layout, s, n) IN
    << for_statement(
          Some(Var("i", ln(1, 1), Some(Num(0)))),
          Some(Binary(Variable("i", ln(1, 2)), "Less", ln(1, 2), Num(p.a + 1))),
          Some(Assign("i", ln(1, 3),
                      Binary(Variable("i", ln(1, 3)), "Plus", ln(1, 3), Num(1)))),
          Block(<< If(Binary(Variable("i", ln(2, 4)), "EqualEqual", ln(2, 4), Num(p.a)),
                      Break, None),
                   PrintStmt(Variable("i", ln(3, 5))) >>)) >>

(* var a = 0; fn get() { return a; } fn set(v) { a = v; }                  *)
(* print get(); a = A; print get(); set(B); print get();                   *)
(* at top level ("closureGlobal") or inside a block ("closureBlock")       *)
ClosureBody(p) ==
    LET ln(n) == Line(p.layout, n, n)
        get(n) == PrintStmt(Call(Variable("get", ln(n)), ln(n), <<>>))
    IN
    << Var("a", ln(1), Some(Num(0))),
       Function("get", ln(2), <<>>, << Return(ln(2), Some(Variable("a", ln(2)))) >>),
       Function("set", ln(3), <<"v">>,
                << Expression(Assign("a", ln(3), Variable("v", ln(3)))) >>),
       get(4),
       Expression(Assign("a", ln(5), Num(p.a))),
       get(6),
       Expression(Call(Variable("set", ln(7)), ln(7), <<Num(p.b)>>)),
       get(8) >>

ProgClosure(p) ==
    IF p.name = "closureBlock" THEN << Block(ClosureBody(p)) >> ELSE ClosureBody(p)

(* fn make() { var i = 0; fn tick() { i = i + 1; return i; } return tick; } *)
(* var t = make(); var u = make(); print t(); (a times) print u(); print t(); *)
ProgCounter(p) ==
    LET ln(n) == Line(p.layout, n, n)
        call(f, n) == PrintStmt(Call(Variable(f, ln(n)), ln(n), <<>>))
    IN
    << Function("make", ln(1), <<>>,
          << Var("i", ln(1), Some(Num(0))),
             Function("tick", ln(1), <<>>,
                << Expression(Assign("i", ln(1),
                      Binary(Variable("i", ln(1)), "Plus", ln(1), Num(1)))),
                   Return(ln(1), Some(Variable("i", ln(1)))) >>),
             Return(ln(1), Some(Variable("tick", ln(1)))) >>),
       Var("t", ln(2), Some(Call(Variable("make", ln(2)), ln(2), <<>>))),
       Var("u", ln(3), Some(Call(Variable("make", ln(3)), ln(3), <<>>))) >>
    \o [n \in 1..p.a |-> call("t", 3 + n)]
    \o << call("u", 4 + p.a), call("t", 5 + p.a) >>

(* var a = "outer"; { fn showA() { print a; } showA(); var a = "block"; showA(); } *)
(* at top level ("staticGlobal") or inside a block ("staticBlock")         *)
StaticBody(p) ==
    LET ln(n) == Line(p.layout, n, n) IN
    << Var("a", ln(1), Some(Literal(LitString("outer")))),
       Block(<< Function("showA", ln(2), <<>>, << PrintStmt(Variable("a", ln(2))) >>),
                Expression(Call(Variable("showA", ln(3)), ln(3), <<>>)),
                Var("a", ln(4), Some(Literal(LitString("block")))),
                Expression(Call(Variable("showA", ln(5)), ln(5), <<>>)) >>) >>

ProgStatic(p) ==
    IF p.name = "staticBlock" THEN << Block(StaticBody(p)) >> ELSE StaticBody(p)

(* class Foo { setx(v) { this.x = v; } }  var a = Foo(); var b = a;        *)
(* a.x = A; print b.x;  b.x = A + 1; print a.x;  a.setx(A + 2); print b.x; *)
(* fn w(o) { o.x = A + 3; } w(b); print a.x;                               *)
(* var c = Foo(); c.x = B; print a.x; print c.x;                           *)
ProgIdentity(p) ==
    LET ln(n) == Line(p.layout, n, n)
        v(x, n) == Variable(x, ln(n))
    IN
    << Class("Foo", ln(1), None,
             << FunctionDeclaration("setx", ln(1), <<"v">>,
                   << Expression(Set(This(ln(1)), "x", ln(1), v("v", 1))) >>) >>),
       Var("a", ln(2), Some(Call(v("Foo", 2), ln(2), <<>>))),
       Var("b", ln(3), Some(v("a", 3))),
       Expression(Set(v("a", 4), "x", ln(4), Num(p.a))),
       PrintStmt(Get(v("b", 5), "x", ln(5))),
       Expression(Set(v("b", 6), "x", ln(6), Num(p.a + 1))),
       PrintStmt(Get(v("a", 7), "x", ln(7))),
       Expression(Call(Get(v("a", 8), "setx", ln(8)), ln(8), <<Num(p.a + 2)>>)),
       PrintStmt(Get(v("b", 9), "x", ln(9))),
       Function("w", ln(10), <<"o">>,
                << Expression(Set(v("o", 10), "x", ln(10), Num(p.a + 3))) >>),
       Expression(Call(v("w", 11), ln(11), <<v("b", 11)>>)),
       PrintStmt(Get(v("a", 12), "x", ln(12))),
       Var("c", ln(13), Some(Call(v("Foo", 13), ln(13), <<>>))),
       Expression(Set(v("c", 14), "x", ln(14), Num(p.b))),
       PrintStmt(Get(v("a", 15), "x", ln(15))),
       PrintStmt(Get(v("c", 16), "x", ln(16))) >>

(* fn f() {} class K {} var v = <a value of kind a>; print v == v; print v != v; *)
ValueKinds ==
    <<"Nil", "Bool", "Number", "String", "NativeFunction", "Function", "Class",
      "Instance">>

ProgEqual(p) ==
    LET ln(n) == Line(p.layout, n, n)
        kind == ValueKinds[p.a]
        init == CASE kind = "Nil" -> Literal(LitNil)
                  [] kind = "Bool" -> Literal(LitBool(p.b = 1))
                  [] kind = "Number" -> Num(p.b)
                  [] kind = "String" -> Literal(LitString("s"))
                  [] kind = "NativeFunction" -> Variable("clock", ln(3))
                  [] kind = "Function" -> Variable("f", ln(3))
                  [] kind = "Class" -> Variable("K", ln(3))
                  [] kind = "Instance" -> Call(Variable("K", ln(3)), ln(3), <<>>)
    IN
    << Function("f", ln(1), <<>>, <<>>),
       Class("K", ln(2), None, <<>>),
       Var("v", ln(3), Some(init)),
       PrintStmt(Binary(Variable("v", ln(4)), "EqualEqual", ln(4), Variable("v", ln(4)))),
       PrintStmt(Binary(Variable("v", ln(5)), "BangEqual", ln(5), Variable("v", ln(5)))) >>

(* a statement that leaves two nested blocks in the way named by a:        *)
(* 1 normally, 2 by break, 3 by return, 4 by a runtime error; then print b *)
ExitModes == <<"ok", "break", "return", "error">>

ProgBlocks(p) ==
    LET ln(n) == Line(p.layout, n, n)
        mode == ExitModes[p.a]
        inner == CASE mode = "ok" -> PrintStmt(Num(0))
                   [] mode = "break" -> Break
                   [] mode = "return" -> Return(ln(1), Some(Num(0)))
                   [] mode = "error" ->
                        PrintStmt(Binary(Num(1), "Plus", ln(1), Literal(LitNil)))
        nested == Block(<< Var("x", ln(1), None), Block(<< inner >>) >>)
    IN
    << CASE mode = "break" -> While(Literal(LitBool(TRUE)), nested)
         [] mode = "return" -> Function("f", ln(1), <<>>, << nested >>)
         [] OTHER -> nested,
       IF mode = "return"
       THEN Expression(Call(Variable("f", ln(2)), ln(2), <<>>))
       ELSE Expression(Literal(LitNil)),
       PrintStmt(Num(p.b)) >>

(* var i = 0; while (i < a) { var j = 0;                                   *)
(*   while (true) { if (j == b) break; j = j + 1; } print j; i = i + 1; }  *)
(* print i;                                                                *)
ProgNestedWhile(p) ==
    LET ln(n) == Line(p.layout, n, n) IN
    << Var("i", ln(1), Some(Num(0))),
       While(Binary(Variable("i", ln(2)), "Less", ln(2), Num(p.a)),
          Block(<< Var("j", ln(3), Some(Num(0))),
                   While(Literal(LitBool(TRUE)),
                      Block(<< If(Binary(Variable("j", ln(4)), "EqualEqual", ln(4),
                                         Num(p.b)), Break, None),
                               Expression(Assign("j", ln(5),
                                  Binary(Variable("j", ln(5)), "Plus", ln(5), Num(1)))) >>)),
                   PrintStmt(Variable("j", ln(6))),
                   Expression(Assign("i", ln(7),
                      Binary(Variable("i", ln(7)), "Plus", ln(7), Num(1)))) >>)),
       PrintStmt(Variable("i", ln(8))) >>

(* class A { init(n) { this.n = n; } get() { return this.n; } }            *)
(* class B < A { twice() { return this.get() + this.get(); } }             *)
(* var b = B(a); print b.twice();                                          *)
(* var g = fn (x) { return -(x); };                                        *)
(* print g(1) < 0 and !false or nil;                                       *)
(* if (clock() >= 0) print "t" + "u"; else print "e";                      *)
ProgMisc(p) ==
    LET ln(n) == Line(p.layout, n, n)
        thisGet(n) == Call(Get(This(ln(n)), "get", ln(n)), ln(n), <<>>)
    IN
    << Class("A", ln(1), None,
          << FunctionDeclaration("init", ln(1), <<"n">>,
                << Expression(Set(This(ln(1)), "n", ln(1), Variable("n", ln(1)))) >>),
             FunctionDeclaration("get", ln(2), <<>>,
                << Return(ln(2), Some(Get(This(ln(2)), "n", ln(2)))) >>) >>),
       Class("B", ln(3), Some(Variable("A", ln(3))),
          << FunctionDeclaration("twice", ln(3), <<>>,
                << Return(ln(3), Some(Binary(thisGet(3), "Plus", ln(3), thisGet(3)))) >>) >>),
       Var("b", ln(4), Some(Call(Variable("B", ln(4)), ln(4), <<Num(p.a)>>))),
       PrintStmt(Call(Get(Variable("b", ln(5)), "twice", ln(5)), ln(5), <<>>)),
       Var("g", ln(6), Some(Lambda(ln(6), <<"x">>,
          << Return(ln(6), Some(Unary("Minus", ln(6), Grouping(Variable("x", ln(6)))))) >>))),
       PrintStmt(Logical(
          Logical(Binary(Call(Variable("g", ln(7)), ln(7), <<Num(1)>>), "Less", ln(7), Num(0)),
                  "And", ln(7), Unary("Bang", ln(7), Literal(LitBool(FALSE)))),
          "Or", ln(7), Literal(LitNil))),
       If(Binary(Call(Variable("clock", ln(8)), ln(8), <<>>), "GreaterEqual", ln(8), Num(0)),
          PrintStmt(Binary(Literal(LitString("t")), "Plus", ln(8), Literal(LitString("u")))),
          Some(PrintStmt(Literal(LitString("e"))))) >>

(* programs the resolver rejects: a = 1: { var a = a; }   a = 2: return 1; *)
ProgRejected(p) ==
    LET ln(n) == Line(p.layout, n, n) IN
    << IF p.a = 1
       THEN Block(<< Var("a", ln(1), Some(Variable("a", ln(1)))) >>)
       ELSE Return(ln(1), Some(Num(1))),
       PrintStmt(Num(p.b)) >>

(* a `break` that no loop encloses:  a = 1: break;   a = 2: { break; }      *)
(* a = 3: if (true) break;   followed by print b;                          *)
ProgBreakTop(p) ==
    LET ln(n) == Line(p.layout, n, n) IN
    << CASE p.a = 1 -> Break
         [] p.a = 2 -> Block(<< Break >>)
         [] OTHER -> If(Literal(LitBool(TRUE)), Break, None),
       PrintStmt(Num(p.b)) >>

(* fn f() { break; }  var i = 0;                                           *)
(* while (i < a) { i = i + 1; f(); print i; }  print "end";                *)
ProgBreakCall(p) ==
    LET ln(n) == Line(p.layout, n, n) IN
    << Function("f", ln(1), <<>>, << Break >>),
       Var("i", ln(2), Some(Num(0))),
       While(Binary(Variable("i", ln(3)), "Less", ln(3), Num(p.a)),
          Block(<< Expression(Assign("i", ln(4),
                      Binary(Variable("i", ln(4)), "Plus", ln(4), Num(1)))),
                   Expression(Call(Variable("f", ln(5)), ln(5), <<>>)),
                   PrintStmt(Variable("i", ln(6))) >>)),
       PrintStmt(Literal(LitString("end"))) >>

(* fn f(n) { var i = 0; while (true) { { if (i == n) return i; } i = i + 1; } } *)
(* fn g() { print "g"; }   fn h() { return; }                               *)
(* class K { m(x) { { return x; } } }                                       *)
(* print f(a); print g(); print h(); print K().m(b);                        *)
ProgReturns(p) ==
    LET ln(n) == Line(p.layout, n, n)
        v(x, n) == Variable(x, ln(n))
    IN
    << Function("f", ln(1), <<"n">>,
          << Var("i", ln(1), Some(Num(0))),
             While(Literal(LitBool(TRUE)),
                Block(<< Block(<< If(Binary(v("i", 2), "EqualEqual", ln(2), v("n", 2)),
                                     Return(ln(2), Some(v("i", 2))), None) >>),
                         Expression(Assign("i", ln(3),
                            Binary(v("i", 3), "Plus", ln(3), Num(1)))) >>)) >>),
       Function("g", ln(4), <<>>, << PrintStmt(Literal(LitString("g"))) >>),
       Function("h", ln(5), <<>>, << Return(ln(5), None) >>),
       Class("K", ln(6), None,
          << FunctionDeclaration("m", ln(6), <<"x">>,
                << Block(<< Return(ln(6), Some(v("x", 6))) >>) >>) >>),
       PrintStmt(Call(v("f", 7), ln(7), <<Num(p.a)>>)),
       PrintStmt(Call(v("g", 8), ln(8), <<>>)),
       PrintStmt(Call(v("h", 9), ln(9), <<>>)),
       PrintStmt(Call(Get(Call(v("K", 10), ln(10), <<>>), "m", ln(10)), ln(10),
                      <<Num(p.b)>>)) >>

(* a = 1: class C { init(n) { this.n = n; print 1 + nil; this.m = n; } }   *)
(*        var c = C(b);                        (through the class call)    *)
(* a = 2: class O { init(n) { if (n > 0) print 1 + nil; } }                *)
(*        var o = O(0); o.init(b);             (explicitly)                *)
(* then print "after";                                                     *)
ProgInitError(p) ==
    LET ln(n) == Line(p.layout, n, n)
        v(x, n) == Variable(x, ln(n))
        fail(n) == PrintStmt(Binary(Num(1), "Plus", ln(n), Literal(LitNil)))
    IN
    IF p.a = 1
    THEN << Class("C", ln(1), None,
               << FunctionDeclaration("init", ln(1), <<"n">>,
                     << Expression(Set(This(ln(1)), "n", ln(1), v("n", 1))),
                        fail(2),
                        Expression(Set(This(ln(3)), "m", ln(3), v("n", 3))) >>) >>),
            Var("c", ln(4), Some(Call(v("C", 4), ln(4), <<Num(p.b)>>))),
            PrintStmt(Literal(LitString("after"))) >>
    ELSE << Class("O", ln(1), None,
               << FunctionDeclaration("init", ln(1), <<"n">>,
                     << If(Binary(v("n", 1), "Greater", ln(1), Num(0)), fail(2), None) >>) >>),
            Var("o", ln(3), Some(Call(v("O", 3), ln(3), <<Num(0)>>))),
            Expression(Call(Get(v("o", 4), "init", ln(4)), ln(4), <<Num(p.b)>>)),
            PrintStmt(Literal(LitString("after"))) >>

(* class P { init(x) { this.x = x; if (x == 1) return; this.y = x; } }     *)
(* var p = P(a); print p.x;  var q = p.init(b); print q.x; print p.x;      *)
(* print P(a).x;                                                           *)
ProgInit(p) ==
    LET ln(n) == Line(p.layout, n, n)
        v(x, n) == Variable(x, ln(n))
    IN
    << Class("P", ln(1), None,
          << FunctionDeclaration("init", ln(1), <<"x">>,
                << Expression(Set(This(ln(1)), "x", ln(1), v("x", 1))),
                   If(Binary(v("x", 2), "EqualEqual", ln(2), Num(1)),
                      Return(ln(2), None), None),
                   Expression(Set(This(ln(3)), "y", ln(3), v("x", 3))) >>) >>),
       Var("p", ln(4), Some(Call(v("P", 4), ln(4), <<Num(p.a)>>))),
       PrintStmt(Get(v("p", 5), "x", ln(5))),
       Var("q", ln(6), Some(Call(Get(v("p", 6), "init", ln(6)), ln(6), <<Num(p.b)>>))),
       PrintStmt(Get(v("q", 7), "x", ln(7))),
       PrintStmt(Get(v("p", 8), "x", ln(8))),
       PrintStmt(Get(Call(v("P", 9), ln(9), <<Num(p.a)>>), "x", ln(9))) >>

(* fn f(x) { print "body"; }  class A { init(n) { print "init"; } }        *)
(* class B < A {}  class E {}  print "start";  <call a>;  print "after";   *)
(* the calls: f()  f(1, 2)  clock(1)  B()  E(1)  A(1, 2)                   *)
ArityCalls ==
    << [callee |-> "f", found |-> 0, expected |-> 1],
       [callee |-> "f", found |-> 2, expected |-> 1],
       [callee |-> "clock", found |-> 1, expected |-> 0],
       [callee |-> "B", found |-> 0, expected |-> 1],
       [callee |-> "E", found |-> 1, expected |-> 0],
       [callee |-> "A", found |-> 2, expected |-> 1] >>

ProgArity(p) ==
    LET ln(n) == Line(p.layout, n, n)
        c == ArityCalls[p.a]
    IN
    << Function("f", ln(1), <<"x">>, << PrintStmt(Literal(LitString("body"))) >>),
       Class("A", ln(2), None,
          << FunctionDeclaration("init", ln(2), <<"n">>,
                << PrintStmt(Literal(LitString("init"))) >>) >>),
       Class("B", ln(3), Some(Variable("A", ln(3))), <<>>),
       Class("E", ln(4), None, <<>>),
       PrintStmt(Literal(LitString("start"))),
       Expression(Call(Variable(c.callee, ln(6)), ln(6), [i \in 1..c.found |-> Num(i)])),
       PrintStmt(Literal(LitString("after"))) >>

(* an assignment to a name without a binding, then print b:                *)
(* a = 1: x = 1;              a = 2: { x = 1; }                            *)
(* a = 3: fn f() { x = 1; } f();                                           *)
(* a = 4: { { var y = 0; y = 1; } y = 1; }   (both `y = 1` on one line)    *)
(* a = 5: { var z = 0; { x = z; } }                                        *)
ProgAssignUndefined(p) ==
    LET ln(n) == Line(p.layout, n, n)
        set(x, n) == Expression(Assign(x, ln(n), Num(1)))
    IN
    << CASE p.a = 1 -> set("x", 1)
         [] p.a = 2 -> Block(<< set("x", 1) >>)
         [] p.a = 3 -> Function("f", ln(1), <<>>, << set("x", 1) >>)
         [] p.a = 4 -> Block(<< Block(<< Var("y", ln(1), Some(Num(0))),
                                         Expression(Assign("y", 1, Num(1))) >>),
                                Expression(Assign("y", 1, Num(1))) >>)
         [] OTHER -> Block(<< Var("z", ln(1), Some(Num(0))),
                              Block(<< Expression(Assign("x", ln(2),
                                          Variable("z", ln(2)))) >>) >>),
       IF p.a = 3
       THEN Expression(Call(Variable("f", ln(3)), ln(3), <<>>))
       ELSE Expression(Literal(LitNil)),
       PrintStmt(Num(p.b)) >>

(* a declaration that reads the variable it declares, then print b:        *)
(* a = 1: var a = a;   a = 2: { var a = a; }   a = 3: fn f() { var a = a; } *)
(* a = 4: class K { m() { var a = a; } }                                   *)
ProgSelfInit(p) ==
    LET ln(n) == Line(p.layout, n, n)
        decl == Var("a", ln(1), Some(Variable("a", ln(1))))
    IN
    << CASE p.a = 1 -> decl
         [] p.a = 2 -> Block(<< decl >>)
         [] p.a = 3 -> Function("f", ln(1), <<>>, << decl >>)
         [] OTHER -> Class("K", ln(1), None,
                        << FunctionDeclaration("m", ln(1), <<>>, << decl >>) >>),
       PrintStmt(Num(p.b)) >>

(* The for loops of the desugaring check.  a says which clauses are left   *)
(* out (1: the initializer, 2: the condition, 4: the increment), b is the  *)
(* bound n.  With I = var i = 0, C = i < n, U = i = i + 1 and              *)
(* B = { if (i == n) break; print i; } (ending in i = i + 1; when U is     *)
(* left out):   [var i = 0;]  for ([I]; [C]; [U]) B   print "end";         *)
OmitsInitializer(p) == p.a % 2 = 1
OmitsCondition(p) == (p.a \div 2) % 2 = 1
OmitsIncrement(p) == (p.a \div 4) % 2 = 1

DesugarInitializer(p) == Var("i", Line(p.layout, 1, 1), Some(Num(0)))

DesugarCondition(p) ==
    LET l == Line(p.layout, 2, 2) IN Binary(Variable("i", l), "Less", l, Num(p.b))

DesugarIncrement(p) ==
    LET l == Line(p.layout, 3, 3) IN
    Assign("i", l, Binary(Variable("i", l), "Plus", l, Num(1)))

DesugarBody(p) ==
    LET ln(n) == Line(p.layout, n, n) IN
    Block(<< If(Binary(Variable("i", ln(4)), "EqualEqual", ln(4), Num(p.b)), Break, None),
             PrintStmt(Variable("i", ln(5))) >>
          \o IF OmitsIncrement(p)
             THEN << Expression(Assign("i", ln(6),
                        Binary(Variable("i", ln(6)), "Plus", ln(6), Num(1)))) >>
             ELSE <<>>)

(* what Parser::declaration yields for the for statement *)
ProgDesugarFor(p) ==
    (IF OmitsInitializer(p) THEN << DesugarInitializer(p) >> ELSE <<>>)
    \o << for_statement(
             IF OmitsInitializer(p) THEN None ELSE Some(DesugarInitializer(p)),
             IF OmitsCondition(p) THEN None ELSE Some(DesugarCondition(p)),
             IF OmitsIncrement(p) THEN None ELSE Some(DesugarIncrement(p)),
             DesugarBody(p)),
          PrintStmt(Literal(LitString("end"))) >>

(* the loop written out with while by hand, on the same lines:             *)
(*   { I; while (C) { B U; } }          every clause present               *)
(*   { I; while (C) B }                 no increment                       *)
(*   while (C) { B U; }                 no initializer                     *)
(*   while (C) B                        neither                            *)
(* with `true` for C when the condition is left out                        *)
ProgDesugarWhile(p) ==
    LET I == DesugarInitializer(p)
        C == IF OmitsCondition(p) THEN Literal(LitBool(TRUE)) ELSE DesugarCondition(p)
        U == Expression(DesugarIncrement(p))
        B == DesugarBody(p)
        end == PrintStmt(Literal(LitString("end")))
    IN  CASE ~OmitsInitializer(p) /\ ~OmitsIncrement(p) ->
                << Block(<< I, While(C, Block(<< B, U >>)) >>), end >>
          [] ~OmitsInitializer(p) /\ OmitsIncrement(p) ->
                << Block(<< I, While(C, B) >>), end >>
          [] OmitsInitializer(p) /\ ~OmitsIncrement(p) ->
                << I, While(C, Block(<< B, U >>)), end >>
          [] OTHER ->
                << I, While(C, B), end >>

(* class A { m() { return 1; } n() { return this.v; } }                     *)
(* class B < A { m() { return 2; } }   class C < B {}                       *)
(* var z = A(); z.v = 0;                                                    *)
(* var o = <A, B or C>(); o.v = b;                                          *)
(* print o.m(); print o.n(); o.m = 7; print o.m; print z.m();               *)
(* print o.zz;   or   print o.v.x;                                          *)
(* a = 1..3: class A, B, C and `o.zz`; a = 4..6: the same with `o.v.x`      *)
PropertyClass(p) == <<"A", "B", "C">>[((p.a - 1) % 3) + 1]

ProgProperty(p) ==
    LET ln(n) == Line(p.layout, n, n)
        v(x, n) == Variable(x, ln(n))
        method(o, name, n) == Call(Get(v(o, n), name, ln(n)), ln(n), <<>>)
    IN
    << Class("A", ln(1), None,
          << FunctionDeclaration("m", ln(1), <<>>, << Return(ln(1), Some(Num(1))) >>),
             FunctionDeclaration("n", ln(2), <<>>,
                << Return(ln(2), Some(Get(This(ln(2)), "v", ln(2)))) >>) >>),
       Class("B", ln(3), Some(v("A", 3)),
          << FunctionDeclaration("m", ln(3), <<>>, << Return(ln(3), Some(Num(2))) >>) >>),
       Class("C", ln(4), Some(v("B", 4)), <<>>),
       Var("z", ln(5), Some(Call(v("A", 5), ln(5), <<>>))),
       Expression(Set(v("z", 6), "v", ln(6), Num(0))),
       Var("o", ln(7), Some(Call(v(PropertyClass(p), 7), ln(7), <<>>))),
       Expression(Set(v("o", 8), "v", ln(8), Num(p.b))),
       PrintStmt(method("o", "m", 9)),
       PrintStmt(method("o", "n", 10)),
       Expression(Set(v("o", 11), "m", ln(11), Num(7))),
       PrintStmt(Get(v("o", 12), "m", ln(12))),
       PrintStmt(method("z", "m", 13)),
       PrintStmt(IF p.a <= 3
                 THEN Get(v("o", 14), "zz", ln(14))
                 ELSE Get(Get(v("o", 14), "v", ln(14)), "x", ln(14))) >>

(* var n = 0;  fn side() { n = n + 1; return "r"; }                         *)
(* print <left> or side();   (b = 1)     print <left> and side();   (b = 2) *)
(* print n;                                                                 *)
LogicalLefts ==
    << LitNil, LitBool(FALSE), LitBool(TRUE), LitNumber(0), LitString("") >>

ProgLogical(p) ==
    LET ln(n) == Line(p.layout, n, n) IN
    << Var("n", ln(1), Some(Num(0))),
       Function("side", ln(2), <<>>,
          << Expression(Assign("n", ln(2),
                Binary(Variable("n", ln(2)), "Plus", ln(2), Num(1)))),
             Return(ln(2), Some(Literal(LitString("r")))) >>),
       PrintStmt(Logical(Literal(LogicalLefts[p.a]),
                         IF p.b = 1 THEN "Or" ELSE "And", ln(3),
                         Call(Variable("side", ln(3)), ln(3), <<>>))),
       PrintStmt(Variable("n", ln(4))) >>

(* fn side(v) { print v; return v; }   fn f(x, y) { print "body"; }         *)
(* print "start";  <call>;  print "after";                                  *)
(* the calls:  "s"(side(1))   side(nil)(side(1))   side(f)(side(1), side(2)) *)
(*             f(side(1))   f(side(1), side(2), side(3))   f(side(1), u, side(3)) *)
CallOrderCalls(line) ==
    LET side(arg) == Call(Variable("side", line), line, <<arg>>)
        f == Variable("f", line)
    IN
    << Call(Literal(LitString("s")), line, << side(Num(1)) >>),
       Call(side(Literal(LitNil)), line, << side(Num(1)) >>),
       Call(side(f), line, << side(Num(1)), side(Num(2)) >>),
       Call(f, line, << side(Num(1)) >>),
       Call(f, line, << side(Num(1)), side(Num(2)), side(Num(3)) >>),
       Call(f, line, << side(Num(1)), Variable("u", line), side(Num(3)) >>) >>

ProgCallOrder(p) ==
    LET ln(n) == Line(p.layout, n, n) IN
    << Function("side", ln(1), <<"v">>,
          << PrintStmt(Variable("v", ln(1))),
             Return(ln(1), Some(Variable("v", ln(1)))) >>),
       Function("f", ln(2), <<"x", "y">>, << PrintStmt(Literal(LitString("body"))) >>),
       PrintStmt(Literal(LitString("start"))),
       Expression(CallOrderCalls(ln(4))[p.a]),
       PrintStmt(Literal(LitString("after"))) >>

(* a faulty top-level item followed by an item that is an error at the top  *)
(* level.  The first item, by a:  { var a; var a; }   fn f() { var a = a; } *)
(* fn f(a, a) { }   class K { m() { var a = a; } }                          *)
(* the second item, by b:  return;   print this;                            *)
FaultyItem(p) ==
    LET ln(n) == Line(p.layout, n, n)
        selfInit == Var("a", ln(1), Some(Variable("a", ln(1))))
    IN
    CASE p.a = 1 -> Block(<< Var("a", ln(1), None), Var("a", ln(2), None) >>)
      [] p.a = 2 -> Function("f", ln(1), <<>>, << selfInit >>)
      [] p.a = 3 -> Function("f", ln(1), <<"a", "a">>, <<>>)
      [] OTHER -> Class("K", ln(1), None,
                     << FunctionDeclaration("m", ln(1), <<>>, << selfInit >>) >>)

FaultyItemError(p) ==
    IF p.a \in {1, 3} THEN "VariableAlreadyDeclared" ELSE "SelfReferencedInitializer"

ProgFaulty(p) ==
    LET ln(n) == Line(p.layout, n, n) IN
    << FaultyItem(p),
       IF p.b = 1 THEN Return(ln(3), None) ELSE PrintStmt(This(ln(3))) >>

TwoLayouts == {"one", "stmt"}

Programs ==
    {Id("nested", l, 0, 0) : l \in TwoLayouts}
    \cup {Id("for", l, a, 0) : l \in Layouts, a \in 1..MaxIter}
    \cup {Id(n, l, a, b) : n \in {"closureGlobal", "closureBlock"}, l \in TwoLayouts,
                           a \in 1..MaxVal, b \in 1..MaxVal}
    \cup {Id("counter", l, a, 0) : l \in TwoLayouts, a \in 1..MaxIter}
    \cup {Id(n, l, 0, 0) : n \in {"staticGlobal", "staticBlock"}, l \in TwoLayouts}
    \cup {Id("identity", l, a, b) : l \in TwoLayouts, a \in 1..MaxVal, b \in 1..MaxVal}
    \cup {Id("equal", l, a, b) : l \in TwoLayouts, a \in 1..Len(ValueKinds), b \in 1..MaxVal}
    \cup {Id("blocks", l, a, b) : l \in TwoLayouts, a \in 1..Len(ExitModes), b \in 1..MaxVal}
    \cup {Id("nestedWhile", l, a, b) : l \in TwoLayouts, a \in 1..MaxIter, b \in 0..MaxIter}
    \cup {Id("misc", l, a, 0) : l \in TwoLayouts, a \in 1..MaxVal}
    \cup {Id("rejected", l, a, b) : l \in TwoLayouts, a \in 1..2, b \in 1..MaxVal}
    \cup {Id("returns", l, a, b) : l \in TwoLayouts, a \in 0..MaxIter, b \in 1..MaxVal}
    \cup {Id("initError", l, a, b) : l \in TwoLayouts, a \in 1..2, b \in 1..MaxVal}
    \cup {Id("init", l, a, b) : l \in TwoLayouts, a \in 1..MaxVal, b \in 1..MaxVal}
    \cup {Id("arity", l, a, 0) : l \in TwoLayouts, a \in 1..Len(ArityCalls)}
    \cup {Id("assignUndefined", l, a, b) : l \in TwoLayouts, a \in 1..5, b \in 1..MaxVal}
    \cup {Id("selfInit", l, a, b) : l \in TwoLayouts, a \in 1..4, b \in 1..MaxVal}
    \cup {Id(n, l, a, b) : n \in {"desugarFor", "desugarWhile"}, l \in {"one", "spread"},
                           a \in 0..7, b \in 1..MaxIter}
    \cup {Id("property", l, a, b) : l \in TwoLayouts, a \in 1..6, b \in 1..MaxVal}
    \cup {Id("logical", l, a, b) : l \in TwoLayouts, a \in 1..Len(LogicalLefts), b \in 1..2}
    \cup {Id("callOrder", l, a, 0) : l \in TwoLayouts, a \in 1..6}
    \cup {Id("faulty", l, a, b) : l \in TwoLayouts, a \in 1..4, b \in 1..2}
    \cup {Id("breakTop", l, a, b) : l \in TwoLayouts, a \in 1..3, b \in 1..MaxVal}
    \cup {Id("breakCall", l, a, 0) : l \in TwoLayouts, a \in 1..MaxIter}


Program(p) ==
    CASE p.name = "nested" -> ProgNested(p)
      [] p.name = "for" -> ProgFor(p)
      [] p.name \in {"closureGlobal", "closureBlock"} -> ProgClosure(p)
      [] p.name = "counter" -> ProgCounter(p)
      [] p.name \in {"staticGlobal", "staticBlock"} -> ProgStatic(p)
      [] p.name = "identity" -> ProgIdentity(p)
      [] p.name = "equal" -> ProgEqual(p)
      [] p.name = "blocks" -> ProgBlocks(p)
      [] p.name = "nestedWhile" -> ProgNestedWhile(p)
      [] p.name = "misc" -> ProgMisc(p)
      [] p.name = "rejected" -> ProgRejected(p)
      [] p.name = "returns" -> ProgReturns(p)
      [] p.name = "initError" -> ProgInitError(p)
      [] p.name = "init" -> ProgInit(p)
      [] p.name = "arity" -> ProgArity(p)
      [] p.name = "assignUndefined" -> ProgAssignUndefined(p)
      [] p.name = "selfInit" -> ProgSelfInit(p)
      [] p.name = "desugarFor" -> ProgDesugarFor(p)
      [] p.name = "desugarWhile" -> ProgDesugarWhile(p)
      [] p.name = "property" -> ProgProperty(p)
      [] p.name = "logical" -> ProgLogical(p)
      [] p.name = "callOrder" -> ProgCallOrder(p)
      [] p.name = "faulty" -> ProgFaulty(p)
      [] p.name = "breakTop" -> ProgBreakTop(p)
      [] p.name = "breakCall" -> ProgBreakCall(p)


-----------------------------------------------------------------------------
(* The scanner (scanner.rs) *)

(* A source file is a byte vector of at most MaxLen bytes *)
MaxLen == 3

(* The bytes the sources are drawn from:  ! = / space \n " 1 . o r @  and  *)
(* 0xC3 0xA9 (the two bytes of U+00E9), 0xFF (a byte of no UTF-8 text)     *)
Bytes == {33, 61, 47, 32, 10, 34, 49, 46, 111, 114, 64, 195, 169, 255}

Sources == UNION {[1..n -> Bytes] : n \in 0..MaxLen}

(* `let x = v;` with v computed once: F at the value of v *)
Let(v, F(_)) == CHOOSE r \in {F(x) : x \in {v}} : TRUE

(* the values of a Scanner *)
Scanner == [source : Seq(0..255), start : Nat, current : Nat, line : Nat]

(* Scanner::new *)
ScannerNew(source) ==
    [source |-> source, start |-> 0, current |-> 0, line |-> 1]

is_at_end(S) == S.current >= Len(S.source)

(* advance: S is the scanner afterwards, c the byte returned *)
advance(S) ==
    [S |-> [S EXCEPT !.current = @ + 1], c |-> S.source[S.current + 1]]

match_char(S, expected) ==
    IF is_at_end(S) \/ S.source[S.current + 1] # expected
    THEN [S |-> S, b |-> FALSE]
    ELSE [S |-> [S EXCEPT !.current = @ + 1], b |-> TRUE]

peek(S) == IF is_at_end(S) THEN 0 ELSE S.source[S.current + 1]

peek_next(S) ==
    IF S.current + 1 >= Len(S.source) THEN 0 ELSE S.source[S.current + 2]

is_ascii_digit(c) == c \in 48..57
is_ascii_alphabetic(c) == c \in 65..90 \/ c \in 97..122
is_ascii_alphanumeric(c) == is_ascii_alphabetic(c) \/ is_ascii_digit(c)

(* String::from_utf8: whether the bytes from index i on are well-formed *)
RECURSIVE from_utf8(_, _)
from_utf8(bytes, i) ==
    IF i > Len(bytes) THEN TRUE
    ELSE LET b == bytes[i]
             cont(j, lo, hi) == i + j <= Len(bytes) /\ bytes[i + j] \in lo..hi
             two(lo, hi) == cont(1, lo, hi) /\ cont(2, 128, 191)
             three(lo, hi) == two(lo, hi) /\ cont(3, 128, 191)
         IN  CASE b < 128 -> from_utf8(bytes, i + 1)
               [] b \in 194..223 -> cont(1, 128, 191) /\ from_utf8(bytes, i + 2)
               [] b = 224 -> two(160, 191) /\ from_utf8(bytes, i + 3)
               [] b \in 225..236 -> two(128, 191) /\ from_utf8(bytes, i + 3)
               [] b = 237 -> two(128, 159) /\ from_utf8(bytes, i + 3)
               [] b \in 238..239 -> two(128, 191) /\ from_utf8(bytes, i + 3)
               [] b = 240 -> three(144, 191) /\ from_utf8(bytes, i + 4)
               [] b \in 241..243 -> three(128, 191) /\ from_utf8(bytes, i + 4)
               [] b = 244 -> three(128, 143) /\ from_utf8(bytes, i + 4)
               [] OTHER -> FALSE

ScanOk(S, v) == [S |-> S, r |-> "Ok", v |-> v]
ScanErr(S, err) == [S |-> S, r |-> "Err", err |-> err]

(* substring: a String is modelled by its (well-formed) bytes *)
substring(S, start, end) ==
    LET bytes == SubSeq(S.source, start + 1, end) IN
    IF from_utf8(bytes, 1)
    THEN ScanOk(S, bytes)
    ELSE ScanErr(S, [kind |-> "InvalidUtf8Char", line |-> S.line])

(* TokenType: a plain kind, or Number(f64), String(String), Identifier(String) *)
TokenType(t) == [t |-> t]
TokenTypeOf(t, value) == [t |-> t, value |-> value]

(* KEYWORDS: the reserved words and their kinds *)
KeywordList ==
    <<
       <<<<97, 110, 100>>, "And">>,                             \* and
       <<<<99, 108, 97, 115, 115>>, "Class">>,                  \* class
       <<<<101, 108, 115, 101>>, "Else">>,                      \* else
       <<<<102, 97, 108, 115, 101>>, "False">>,                 \* false
       <<<<102, 111, 114>>, "For">>,                            \* for
       <<<<102, 110>>, "Fn">>,                                  \* fn
       <<<<105, 102>>, "If">>,                                  \* if
       <<<<110, 105, 108>>, "Nil">>,                            \* nil
       <<<<111, 114>>, "Or">>,                                  \* or
       <<<<112, 114, 105, 110, 116>>, "Print">>,                \* print
       <<<<114, 101, 116, 117, 114, 110>>, "Return">>,          \* return
       <<<<115, 117, 112, 101, 114>>, "Super">>,                \* super
       <<<<116, 104, 105, 115>>, "This">>,                      \* this
       <<<<116, 114, 117, 101>>, "True">>,                      \* true
       <<<<118, 97, 114>>, "Var">>,                             \* var
       <<<<119, 104, 105, 108, 101>>, "While">>,                \* while
       <<<<98, 114, 101, 97, 107>>, "Break">>                   \* break
    >>

KEYWORDS ==
    [text \in {KeywordList[i][1] : i \in 1..Len(KeywordList)} |->
        LET i == CHOOSE j \in 1..Len(KeywordList) : KeywordList[j][1] = text
        IN  TokenType(KeywordList[i][2])]

(* the comment loop of scan_token *)
comment[S \in Scanner] ==
    IF peek(S) # 10 /\ ~is_at_end(S) THEN comment[advance(S).S] ELSE S

(* the loop of string() *)
string_seek[S \in Scanner] ==
    IF peek(S) # 34 /\ ~is_at_end(S)
    THEN LET S1 == IF peek(S) = 10 THEN [S EXCEPT !.line = @ + 1] ELSE S
         IN  string_seek[advance(S1).S]
    ELSE S

string(S) ==
    Let(string_seek[S], LAMBDA S1 :
        IF is_at_end(S1)
        THEN ScanErr(S1, [kind |-> "UnterminatedString", line |-> S1.line])
        ELSE Let(advance(S1).S, LAMBDA S2 :
             Let(substring(S2, S2.start + 1, S2.current - 1), LAMBDA value :
                 IF value.r = "Err" THEN ScanErr(S2, value.err)
                 ELSE ScanOk(S2, Some(TokenTypeOf("String", value.v))))))

(* the two digit loops of number() *)
digits[S \in Scanner] ==
    IF is_ascii_digit(peek(S)) THEN digits[advance(S).S] ELSE S

(* str::parse::<f64> on decimal text: digits with at most one `.`; the     *)
(* value is kept as the integer before the point and the digits after it   *)
DecimalValue[ds \in Seq(48..57)] ==
    IF ds = <<>> THEN 0
    ELSE 10 * DecimalValue[SubSeq(ds, 1, Len(ds) - 1)] + (ds[Len(ds)] - 48)

parse_f64(text) ==
    LET points == {i \in 1..Len(text) : text[i] = 46}
        wellFormed ==
            /\ \A i \in 1..Len(text) : is_ascii_digit(text[i]) \/ text[i] = 46
            /\ Cardinality(points) <= 1
            /\ Len(text) > Cardinality(points)
        point == IF points = {} THEN Len(text) + 1 ELSE CHOOSE i \in points : TRUE
    IN  IF wellFormed
        THEN [r |-> "Ok",
              v |-> [whole |-> DecimalValue[SubSeq(text, 1, point - 1)],
                     fraction |-> SubSeq(text, point + 1, Len(text))]]
        ELSE [r |-> "Err", err |-> [kind |-> "NumberParse"]]

number(S) ==
    Let(digits[S], LAMBDA S1 :
    Let(IF peek(S1) = 46 /\ is_ascii_digit(peek_next(S1))
        THEN digits[advance(S1).S]
        ELSE S1, LAMBDA S2 :
    Let(substring(S2, S2.start, S2.current), LAMBDA text :
        IF text.r = "Err" THEN ScanErr(S2, text.err)
        ELSE Let(parse_f64(text.v), LAMBDA value :
                 IF value.r = "Err" THEN ScanErr(S2, value.err)
                 ELSE ScanOk(S2, Some(TokenTypeOf("Number", value.v)))))))

(* the loop of identifier() *)
identifier_seek[S \in Scanner] ==
    IF is_ascii_alphanumeric(peek(S)) \/ peek(S) = 95
    THEN identifier_seek[advance(S).S]
    ELSE S

identifier(S) ==
    Let(identifier_seek[S], LAMBDA S1 :
    Let(substring(S1, S1.start, S1.current), LAMBDA text :
        IF text.r = "Err" THEN ScanErr(S1, text.err)
        ELSE IF text.v \in DOMAIN KEYWORDS
        THEN ScanOk(S1, Some(KEYWORDS[text.v]))
        ELSE ScanOk(S1, Some(TokenTypeOf("Identifier", text.v)))))

(* the single-byte tokens of scan_token *)
SingleCharacter(c) ==
    CASE c = 40 -> "LeftParen"  [] c = 41 -> "RightParen"
      [] c = 123 -> "LeftBrace" [] c = 125 -> "RightBrace"
      [] c = 44 -> "Comma"      [] c = 46 -> "Dot"
      [] c = 45 -> "Minus"      [] c = 43 -> "Plus"
      [] c = 59 -> "Semicolon"  [] c = 42 -> "Star"

(* the operators of one or two bytes: <<alone, followed by `=`>> *)
OneOrTwo(c) ==
    CASE c = 33 -> <<"Bang", "BangEqual">>
      [] c = 61 -> <<"Equal", "EqualEqual">>
      [] c = 60 -> <<"Less", "LessEqual">>
      [] c = 62 -> <<"Greater", "GreaterEqual">>

scan_token(S0) ==
    Let(advance(S0), LAMBDA a :
    LET S == a.S
        c == a.c
    IN  CASE c \in {40, 41, 123, 125, 44, 46, 45, 43, 59, 42} ->
                ScanOk(S, Some(TokenType(SingleCharacter(c))))
          [] c \in {33, 61, 60, 62} ->
                Let(match_char(S, 61), LAMBDA m :
                ScanOk(m.S, Some(TokenType(OneOrTwo(c)[IF m.b THEN 2 ELSE 1]))))
          [] c = 47 ->
                Let(match_char(S, 47), LAMBDA m :
                IF m.b THEN ScanOk(comment[m.S], None)
                ELSE ScanOk(S, Some(TokenType("Slash"))))
          [] c \in {32, 13, 9} -> ScanOk(S, None)
          [] c = 10 -> ScanOk([S EXCEPT !.line = @ + 1], None)
          [] c = 34 -> string(S)
          [] is_ascii_digit(c) -> number(S)
          [] is_ascii_alphabetic(c) \/ c = 95 -> identifier(S)
          [] OTHER ->
                ScanErr(S, [kind |-> "UnexpectedCharacter", c |-> c,
                            line |-> S.line]))

make_token(S, token_type) ==
    Let(substring(S, S.start, S.current), LAMBDA text :
        IF text.r = "Err" THEN ScanErr(S, text.err)
        ELSE ScanOk(S, Token(token_type, text.v, S.line)))

(* scan_token().and_then(|ov| ov.map(|t| make_token(t)).transpose()) *)
scan_token_and_then(S0) ==
    Let(scan_token(S0), LAMBDA ov :
        IF ov.r = "Err" \/ ov.v = None THEN ov
        ELSE Let(make_token(ov.S, ov.v[1]), LAMBDA t :
                 IF t.r = "Err" THEN t ELSE ScanOk(t.S, Some(t.v))))

scan_tokens_result_tokens_always(toks, errs) ==
    [r |-> "Ok", tokens |-> toks]

(* what scan_tokens returns after its loop *)
scan_tokens_result(toks, errs) ==
    IF errs = <<>>
    THEN [r |-> "Ok", tokens |-> toks]
    ELSE [r |-> "Err", errors |-> errs]

-----------------------------------------------------------------------------
(* The parser (parser.rs).  A parser state P is Parser { tokens, current }, *)
(* current counted from 0 as in the source.  Every method yields            *)
(* [P, r, v or err]: r = "Ok" with the value v; r = "Err" with the parse    *)
(* error that `?` hands up, the cursor staying where the error was raised;  *)
(* r = "Abort" when the call does not return, because an index panics or    *)
(* because the recursion is deeper than the stack.                          *)

MaxArguments == 255

(* the length of the token lists that are tried exhaustively *)
MaxTokens == 2

(* The depth of nested declaration and expression calls the stack holds.   *)
(* A list of n tokens nests at most n + 1 of them, unless one is entered   *)
(* again and again with no token consumed in between, so a recursion       *)
(* deeper than that never returns.                                         *)
StackDepth == MaxTokens + 1

POk(P, v) == [P |-> P, r |-> "Ok", v |-> v]
PErr(P, e) == [P |-> P, r |-> "Err", err |-> e]
PAbort(P, what) == [P |-> P, r |-> "Abort", err |-> what]

Syntax(msg, line) == [kind |-> "Syntax", msg |-> msg, line |-> line]
TooManyArguments(line) == [kind |-> "TooManyArguments", line |-> line]

(* `x?` followed by the rest of the method *)
Try(x, F(_)) == IF x.r # "Ok" THEN x ELSE F(x)

ParserNew(toks) == [tokens |-> toks, current |-> 0]

parser_peek(P) == P.tokens[P.current + 1]

previous(P) ==
    IF P.current = 0 THEN PAbort(P, "IndexOutOfBounds")
    ELSE POk(P, P.tokens[P.current])

parser_is_at_end(P) == parser_peek(P).token_type = "Eof"

check(P, token_type) ==
    IF parser_is_at_end(P) THEN FALSE
    ELSE parser_peek(P).token_type = token_type

parser_advance(P) ==
    previous(IF ~parser_is_at_end(P) THEN [P EXCEPT !.current = @ + 1] ELSE P)

restore(P) == IF P.current > 0 THEN [P EXCEPT !.current = @ - 1] ELSE P

match_token(P, token_types) ==
    IF \E i \in 1..Len(token_types) : check(P, token_types[i])
    THEN Try(parser_advance(P), LAMBDA a : POk(a.P, TRUE))
    ELSE POk(P, FALSE)

consume(P, token_type, message) ==
    IF check(P, token_type) THEN parser_advance(P)
    ELSE PErr(P, Syntax(message, parser_peek(P).line))

consume_identifier(P, message) ==
    LET error == Syntax(message, parser_peek(P).line) IN
    IF parser_is_at_end(P) THEN PErr(P, error)
    ELSE IF parser_peek(P).token_type = "Identifier" THEN parser_advance(P)
    ELSE PErr(P, error)

(* the token kinds at which synchronize stops *)
SynchronizeKeywords ==
    {"Class", "Fn", "Var", "For", "If", "While", "Print", "Return"}

RECURSIVE descend(_, _, _)
RECURSIVE synchronize_loop(_)
synchronize_loop(P) ==
    IF parser_is_at_end(P) THEN POk(P, TRUE)
    ELSE Try(previous(P), LAMBDA p :
         IF p.v.token_type = "Semicolon" THEN POk(P, TRUE)
         ELSE IF parser_peek(P).token_type \in SynchronizeKeywords THEN POk(P, TRUE)
         ELSE Try(parser_advance(P), LAMBDA a : synchronize_loop(a.P)))

synchronize(P) == Try(parser_advance(P), LAMBDA a : synchronize_loop(a.P))

RECURSIVE declaration(_, _)
RECURSIVE declaration_result(_, _)
RECURSIVE class_declaration(_, _)
RECURSIVE class_declaration_methods(_, _, _)
RECURSIVE function_statement(_, _)
RECURSIVE function(_, _, _)
RECURSIVE var_declaration(_, _)
RECURSIVE statement(_, _)
RECURSIVE return_statement(_, _)
RECURSIVE parse_for_statement(_, _)
RECURSIVE while_statement(_, _)
RECURSIVE if_statement(_, _)
RECURSIVE block(_, _)
RECURSIVE block_loop(_, _, _)
RECURSIVE print_statement(_, _)
RECURSIVE expression_statement(_, _)
RECURSIVE expression(_, _)
RECURSIVE lambda(_, _)
RECURSIVE assignment(_, _)
RECURSIVE or(_, _)
RECURSIVE or_loop(_, _, _)
RECURSIVE and(_, _)
RECURSIVE and_loop(_, _, _)
RECURSIVE equality(_, _)
RECURSIVE equality_loop(_, _, _)
RECURSIVE comparison(_, _)
RECURSIVE comparison_loop(_, _, _)
RECURSIVE term(_, _)
RECURSIVE term_loop(_, _, _)
RECURSIVE factor(_, _)
RECURSIVE factor_loop(_, _, _)
RECURSIVE unary(_, _)
RECURSIVE call(_, _)
RECURSIVE call_loop(_, _, _)
RECURSIVE finish_call(_, _, _)
RECURSIVE finish_call_loop(_, _)
RECURSIVE finish_call_turn(_, _)
RECURSIVE finish_call_turns(_, _, _)
RECURSIVE primary(_, _)

(* declaration: `let result = match previous.get_token_type() { .. }` *)
declaration_result(P, d) ==
    Try(parser_advance(P), LAMBDA p :
        CASE p.v.token_type = "Class" -> descend("class_declaration", p.P, d)
          [] p.v.token_type = "Fn" -> descend("function_statement", p.P, d)
          [] p.v.token_type = "Var" -> descend("var_declaration", p.P, d)
          [] OTHER -> descend("statement", restore(p.P), d))

(* declaration: the result, after synchronize when it is an error *)
declaration(P, d) ==
    IF d = 0 THEN PAbort(P, "StackOverflow")
    ELSE LET res == declaration_result(P, d - 1) IN
         IF res.r = "Err"
         THEN Try(synchronize(res.P), LAMBDA s : [res EXCEPT !.P = s.P])
         ELSE res

(* the method loop of class_declaration *)
class_declaration_methods(P, d, methods) ==
    IF ~check(P, "RightBrace") /\ ~parser_is_at_end(P)
    THEN Try(function(P, d, "method"), LAMBDA m :
             class_declaration_methods(m.P, d, Append(methods, m.v)))
    ELSE POk(P, methods)

class_declaration(P, d) ==
    Try(consume_identifier(P, "Expect class name."), LAMBDA name :
    Try(LET less == consume(name.P, "Less", "") IN
        IF less.r = "Ok"
        THEN Try(consume_identifier(less.P, "Expect superclass name."), LAMBDA i :
             Try(previous(i.P), LAMBDA p :
                 POk(p.P, Some([e |-> "Variable", name |-> p.v]))))
        ELSE IF less.r = "Err" THEN POk(less.P, None)
        ELSE less, LAMBDA sup :
    Try(consume(sup.P, "LeftBrace", "Expect '{' before class body."), LAMBDA lb :
    Try(class_declaration_methods(lb.P, d, <<>>), LAMBDA methods :
    Try(consume(methods.P, "RightBrace", "Expect '}' after class body."), LAMBDA rb :
        POk(rb.P, [s |-> "Class", name |-> name.v, superclass |-> sup.v,
                   methods |-> methods.v]))))))

function_statement(P, d) ==
    IF parser_peek(P).token_type = "Identifier"
    THEN Try(function(P, d, "function"), LAMBDA f :
             POk(f.P, [s |-> "Function", declaration |-> f.v]))
    ELSE Try(descend("lambda", P, d), LAMBDA l :
         Try(consume(l.P, "Semicolon",
                     "Expect ';' after anonymous function expression statement."),
             LAMBDA c : POk(c.P, Expression(l.v))))

(* One turn of the loop of parameters.  v holds the names read so far and   *)
(* r is "Ok" while the loop goes on, "Break" once it is left.               *)
parameters_turn(L) ==
    IF L.r # "Ok" THEN L
    ELSE IF Len(L.v) >= MaxArguments
    THEN PErr(L.P, TooManyArguments(parser_peek(L.P).line))
    ELSE LET name == consume_identifier(L.P, "Expect parameter name.")
             m == match_token(name.P, <<"Comma">>)
         IN  IF name.r # "Ok" THEN name
             ELSE IF m.r # "Ok" THEN m
             ELSE [P |-> m.P, r |-> IF m.v THEN "Ok" ELSE "Break",
                   v |-> Append(L.v, name.v)]

(* n turns of the loop, the first half before the second *)
RECURSIVE parameters_turns(_, _)
parameters_turns(L, n) ==
    IF n = 1 THEN parameters_turn(L)
    ELSE Let(parameters_turns(L, n \div 2), LAMBDA half :
             parameters_turns(half, n - n \div 2))

(* the loop of parameters: every turn but the last consumes a comma, so    *)
(* there are no more turns than tokens                                     *)
parameters_loop(P) ==
    LET L == parameters_turns(POk(P, <<>>), Len(P.tokens)) IN
    IF L.r = "Break" THEN POk(L.P, L.v) ELSE L

parameters(P) ==
    Try(IF ~check(P, "RightParen") THEN parameters_loop(P) ELSE POk(P, <<>>),
        LAMBDA params :
    Try(consume(params.P, "RightParen", "Expect ')' after parameters."), LAMBDA c :
        POk(c.P, params.v)))

function(P, d, kind) ==
    LET format(function_text, method_text) ==
            IF kind = "function" THEN function_text ELSE method_text
    IN
    Try(consume_identifier(P, format("Expect function name.", "Expect method name.")),
        LAMBDA name :
    Try(consume(name.P, "LeftParen", format("Expect '(' after function name.",
                                            "Expect '(' after method name.")),
        LAMBDA lp :
    Try(parameters(lp.P), LAMBDA params :
    Try(consume(params.P, "LeftBrace", format("Expect '{' before function body.",
                                              "Expect '{' before method body.")),
        LAMBDA lb :
    Try(descend("block", lb.P, d), LAMBDA body :
        POk(body.P, [name |-> name.v, params |-> params.v, body |-> body.v]))))))

var_declaration(P, d) ==
    Try(consume_identifier(P, "Expect variable name."), LAMBDA name :
    Try(match_token(name.P, <<"Equal">>), LAMBDA m :
    Try(IF m.v THEN Try(descend("expression", m.P, d), LAMBDA e : POk(e.P, Some(e.v)))
        ELSE POk(m.P, None), LAMBDA initializer :
    Try(consume(initializer.P, "Semicolon", "Expect ';' after variable declaration."),
        LAMBDA c :
        POk(c.P, [s |-> "Var", name |-> name.v, initializer |-> initializer.v])))))

break_statement(P) ==
    Try(consume(P, "Semicolon", "Expect ';' after 'break'."), LAMBDA c :
        POk(c.P, Break))

statement(P, d) ==
    Try(parser_advance(P), LAMBDA p :
        CASE p.v.token_type = "Print" -> descend("print_statement", p.P, d)
          [] p.v.token_type = "LeftBrace" ->
                Try(descend("block", p.P, d), LAMBDA b : POk(b.P, Block(b.v)))
          [] p.v.token_type = "If" -> descend("if_statement", p.P, d)
          [] p.v.token_type = "While" -> descend("while_statement", p.P, d)
          [] p.v.token_type = "For" -> descend("parse_for_statement", p.P, d)
          [] p.v.token_type = "Break" -> break_statement(p.P)
          [] p.v.token_type = "Return" -> descend("return_statement", p.P, d)
          [] OTHER -> descend("expression_statement", restore(p.P), d))

return_statement(P, d) ==
    Try(previous(P), LAMBDA keyword :
    Try(IF check(P, "Semicolon") THEN POk(P, None)
        ELSE Try(descend("expression", P, d), LAMBDA e : POk(e.P, Some(e.v))), LAMBDA value :
    Try(consume(value.P, "Semicolon", "Expect ';' after return value."), LAMBDA c :
        POk(c.P, [s |-> "Return", keyword |-> keyword.v, value |-> value.v]))))

(* Parser::for_statement: the clauses, the body and the desugaring *)
parse_for_statement(P, d) ==
    Try(consume(P, "LeftParen", "Expect '(' after 'for'."), LAMBDA lp :
    Try(match_token(lp.P, <<"Semicolon">>), LAMBDA semi :
    Try(IF semi.v THEN POk(semi.P, None)
        ELSE Try(match_token(semi.P, <<"Var">>), LAMBDA var :
                 IF var.v
                 THEN Try(descend("var_declaration", var.P, d), LAMBDA v : POk(v.P, Some(v.v)))
                 ELSE Try(descend("expression_statement", var.P, d), LAMBDA e :
                          POk(e.P, Some(e.v)))), LAMBDA initializer :
    Try(IF check(initializer.P, "Semicolon") THEN POk(initializer.P, None)
        ELSE Try(descend("expression", initializer.P, d), LAMBDA e : POk(e.P, Some(e.v))),
        LAMBDA condition :
    Try(consume(condition.P, "Semicolon", "Expect ';' after loop condition."),
        LAMBDA c1 :
    Try(IF check(c1.P, "RightParen") THEN POk(c1.P, None)
        ELSE Try(descend("expression", c1.P, d), LAMBDA e : POk(e.P, Some(e.v))),
        LAMBDA increment :
    Try(consume(increment.P, "RightParen", "Expect ')' after 'for' clauses."),
        LAMBDA rp :
    Try(descend("statement", rp.P, d), LAMBDA body :
        POk(body.P, for_statement(initializer.v, condition.v, increment.v,
                                  body.v))))))))))

while_statement(P, d) ==
    Try(consume(P, "LeftParen", "Expect '(' after 'while'."), LAMBDA lp :
    Try(descend("expression", lp.P, d), LAMBDA condition :
    Try(consume(condition.P, "RightParen", "Expect ')' after 'while' condition."),
        LAMBDA rp :
    Try(descend("statement", rp.P, d), LAMBDA body :
        POk(body.P, While(condition.v, body.v))))))

if_statement(P, d) ==
    Try(consume(P, "LeftParen", "Expect '(' after 'if'."), LAMBDA lp :
    Try(descend("expression", lp.P, d), LAMBDA condition :
    Try(consume(condition.P, "RightParen", "Expect ')' after 'if' condition."),
        LAMBDA rp :
    Try(descend("statement", rp.P, d), LAMBDA then_branch :
    Try(match_token(then_branch.P, <<"Else">>), LAMBDA m :
    Try(IF m.v THEN Try(descend("statement", m.P, d), LAMBDA s : POk(s.P, Some(s.v)))
        ELSE POk(m.P, None), LAMBDA else_branch :
        POk(else_branch.P, If(condition.v, then_branch.v, else_branch.v))))))))

(* the loop of block: stmts holds the statements read so far *)
block_loop(P, d, stmts) ==
    IF ~parser_is_at_end(P) /\ ~check(P, "RightBrace")
    THEN Try(descend("declaration", P, d), LAMBDA s : block_loop(s.P, d, Append(stmts, s.v)))
    ELSE POk(P, stmts)

block(P, d) ==
    Try(block_loop(P, d, <<>>), LAMBDA stmts :
    Try(consume(stmts.P, "RightBrace", "Expect '}}' after block."), LAMBDA c :
        POk(c.P, stmts.v)))

print_statement(P, d) ==
    Try(descend("expression", P, d), LAMBDA expr :
    Try(consume(expr.P, "Semicolon", "Expect ';' after expression."), LAMBDA c :
        POk(c.P, PrintStmt(expr.v))))

expression_statement(P, d) ==
    Try(descend("expression", P, d), LAMBDA expr :
    Try(consume(expr.P, "Semicolon", "Expect ';' after expression."), LAMBDA c :
        POk(c.P, Expression(expr.v))))

expression(P, d) ==
    IF d = 0 THEN PAbort(P, "StackOverflow")
    ELSE Try(match_token(P, <<"Fn">>), LAMBDA m :
             IF m.v THEN descend("lambda", m.P, d - 1) ELSE descend("assignment", m.P, d - 1))

lambda(P, d) ==
    Try(previous(P), LAMBDA p :
    LET name == Token("Identifier", "<anonymous>", p.v.line) IN
    Try(consume(P, "LeftParen", "Expect '(' after anonymous fn."), LAMBDA lp :
    Try(parameters(lp.P), LAMBDA params :
    Try(consume(params.P, "LeftBrace", "Expect '{{' before anonymous fn body."),
        LAMBDA lb :
    Try(descend("block", lb.P, d), LAMBDA body :
        POk(body.P, [e |-> "Lambda",
                     declaration |-> [name |-> name, params |-> params.v,
                                      body |-> body.v]]))))))

assignment(P, d) ==
    Try(descend("or", P, d), LAMBDA expr :
    Try(match_token(expr.P, <<"Equal">>), LAMBDA m :
        IF m.v
        THEN Try(previous(m.P), LAMBDA equals :
             Try(descend("assignment", m.P, d), LAMBDA value :
                 CASE expr.v.e = "Variable" ->
                        POk(value.P, [e |-> "Assign", name |-> expr.v.name,
                                      value |-> value.v])
                   [] expr.v.e = "Get" ->
                        POk(value.P, [e |-> "Set", object |-> expr.v.object,
                                      name |-> expr.v.name, value |-> value.v])
                   [] OTHER ->
                        PErr(value.P, Syntax("Invalid assignment target.",
                                             equals.v.line))))
        ELSE POk(m.P, expr.v)))

or_loop(P, d, expr) ==
    Try(match_token(P, <<"Or">>), LAMBDA m :
        IF ~m.v THEN POk(m.P, expr)
        ELSE Try(previous(m.P), LAMBDA operator :
             Try(descend("and", m.P, d), LAMBDA right :
                 or_loop(right.P, d, [e |-> "Logical", left |-> expr,
                                      operator |-> operator.v, right |-> right.v]))))

or(P, d) == Try(descend("and", P, d), LAMBDA expr : or_loop(expr.P, d, expr.v))

and_loop(P, d, expr) ==
    Try(match_token(P, <<"And">>), LAMBDA m :
        IF ~m.v THEN POk(m.P, expr)
        ELSE Try(previous(m.P), LAMBDA operator :
             Try(descend("equality", m.P, d), LAMBDA right :
                 and_loop(right.P, d, [e |-> "Logical", left |-> expr,
                                       operator |-> operator.v, right |-> right.v]))))

and(P, d) == Try(descend("equality", P, d), LAMBDA expr : and_loop(expr.P, d, expr.v))

equality_loop(P, d, expr) ==
    Try(match_token(P, <<"BangEqual", "EqualEqual">>), LAMBDA m :
        IF ~m.v THEN POk(m.P, expr)
        ELSE Try(previous(m.P), LAMBDA operator :
             Try(descend("comparison", m.P, d), LAMBDA right :
                 equality_loop(right.P, d, [e |-> "Binary", left |-> expr,
                                            operator |-> operator.v,
                                            right |-> right.v]))))

equality(P, d) == Try(descend("comparison", P, d), LAMBDA expr : equality_loop(expr.P, d, expr.v))

comparison_loop(P, d, expr) ==
    Try(match_token(P, <<"Greater", "GreaterEqual", "Less", "LessEqual">>), LAMBDA m :
        IF ~m.v THEN POk(m.P, expr)
        ELSE Try(previous(m.P), LAMBDA operator :
             Try(descend("term", m.P, d), LAMBDA right :
                 comparison_loop(right.P, d, [e |-> "Binary", left |-> expr,
                                              operator |-> operator.v,
                                              right |-> right.v]))))

comparison(P, d) == Try(descend("term", P, d), LAMBDA expr : comparison_loop(expr.P, d, expr.v))

term_loop(P, d, expr) ==
    Try(match_token(P, <<"Minus", "Plus">>), LAMBDA m :
        IF ~m.v THEN POk(m.P, expr)
        ELSE Try(previous(m.P), LAMBDA operator :
             Try(descend("factor", m.P, d), LAMBDA right :
                 term_loop(right.P, d, [e |-> "Binary", left |-> expr,
                                        operator |-> operator.v, right |-> right.v]))))

term(P, d) == Try(descend("factor", P, d), LAMBDA expr : term_loop(expr.P, d, expr.v))

factor_loop(P, d, expr) ==
    Try(match_token(P, <<"Slash", "Star">>), LAMBDA m :
        IF ~m.v THEN POk(m.P, expr)
        ELSE Try(previous(m.P), LAMBDA operator :
             Try(descend("unary", m.P, d), LAMBDA right :
                 factor_loop(right.P, d, [e |-> "Binary", left |-> expr,
                                          operator |-> operator.v,
                                          right |-> right.v]))))

factor(P, d) == Try(descend("unary", P, d), LAMBDA expr : factor_loop(expr.P, d, expr.v))

unary(P, d) ==
    Try(match_token(P, <<"Bang", "Minus">>), LAMBDA m :
        IF m.v
        THEN Try(previous(m.P), LAMBDA operator :
             Try(descend("unary", m.P, d), LAMBDA right :
                 POk(right.P, [e |-> "Unary", operator |-> operator.v,
                               right |-> right.v])))
        ELSE descend("call", m.P, d))

(* the loop of call: expr is the callee read so far *)
call_loop(P, d, expr) ==
    Try(match_token(P, <<"LeftParen">>), LAMBDA lp :
        IF lp.v
        THEN Try(finish_call(lp.P, d, expr), LAMBDA c : call_loop(c.P, d, c.v))
        ELSE Try(match_token(lp.P, <<"Dot">>), LAMBDA dot :
             IF dot.v
             THEN Try(consume_identifier(dot.P, "Expect property name after '.'."),
                      LAMBDA name :
                      call_loop(name.P, d, [e |-> "Get", object |-> expr,
                                            name |-> name.v]))
             ELSE POk(dot.P, expr)))

call(P, d) == Try(descend("primary", P, d), LAMBDA expr : call_loop(expr.P, d, expr.v))

(* One turn of the loop of finish_call.  v holds the arguments read so far *)
(* and r is "Ok" while the loop goes on, "Break" once it is left.          *)
finish_call_turn(L, d) ==
    IF L.r # "Ok" THEN L
    ELSE IF Len(L.v) >= MaxArguments
    THEN PErr(L.P, TooManyArguments(parser_peek(L.P).line))
    ELSE LET expr == descend("expression", L.P, d)
             m == match_token(expr.P, <<"Comma">>)
         IN  IF expr.r # "Ok" THEN expr
             ELSE IF m.r # "Ok" THEN m
             ELSE [P |-> m.P, r |-> IF m.v THEN "Ok" ELSE "Break",
                   v |-> Append(L.v, expr.v)]

(* n turns of the loop, the first half before the second *)
finish_call_turns(L, d, n) ==
    IF n = 1 THEN finish_call_turn(L, d)
    ELSE Let(finish_call_turns(L, d, n \div 2), LAMBDA half :
             finish_call_turns(half, d, n - n \div 2))

(* the loop of finish_call: every turn but the last consumes a comma, so   *)
(* there are no more turns than tokens                                     *)
finish_call_loop(P, d) ==
    LET L == finish_call_turns(POk(P, <<>>), d, Len(P.tokens)) IN
    IF L.r = "Break" THEN POk(L.P, L.v) ELSE L

finish_call(P, d, callee) ==
    Try(IF ~check(P, "RightParen") THEN finish_call_loop(P, d)
        ELSE POk(P, <<>>), LAMBDA arguments :
    Try(consume(arguments.P, "RightParen", "Expect ')' after arguments."),
        LAMBDA paren :
        POk(paren.P, [e |-> "Call", callee |-> callee, paren |-> paren.v,
                      arguments |-> arguments.v])))

primary(P, d) ==
    Try(parser_advance(P), LAMBDA p :
        CASE p.v.token_type = "False" -> POk(p.P, Literal(LitBool(FALSE)))
          [] p.v.token_type = "True" -> POk(p.P, Literal(LitBool(TRUE)))
          [] p.v.token_type = "Nil" -> POk(p.P, Literal(LitNil))
          [] p.v.token_type = "Number" -> POk(p.P, Literal(LitNumber(p.v.value)))
          [] p.v.token_type = "String" -> POk(p.P, Literal(LitString(p.v.value)))
          [] p.v.token_type = "This" -> POk(p.P, [e |-> "This", keyword |-> p.v])
          [] p.v.token_type = "Identifier" ->
                POk(p.P, [e |-> "Variable", name |-> p.v])
          [] p.v.token_type = "LeftParen" ->
                Try(descend("expression", p.P, d), LAMBDA expr :
                Try(consume(expr.P, "RightParen", "Expect ')' after expression."),
                    LAMBDA c : POk(c.P, Grouping(expr.v))))
          [] OTHER -> PErr(p.P, Syntax("Expect expression.", p.v.line)))

(* Parser::parse after the loop *)

(* Recursive descent.  The functions of the grammar call one another by    *)
(* name through descend: descend("statement", P, d) is self.statement().    *)
descend(rule, P, d) ==
    CASE rule = "declaration" -> declaration(P, d)
      [] rule = "class_declaration" -> class_declaration(P, d)
      [] rule = "function_statement" -> function_statement(P, d)
      [] rule = "var_declaration" -> var_declaration(P, d)
      [] rule = "statement" -> statement(P, d)
      [] rule = "return_statement" -> return_statement(P, d)
      [] rule = "parse_for_statement" -> parse_for_statement(P, d)
      [] rule = "while_statement" -> while_statement(P, d)
      [] rule = "if_statement" -> if_statement(P, d)
      [] rule = "block" -> block(P, d)
      [] rule = "print_statement" -> print_statement(P, d)
      [] rule = "expression_statement" -> expression_statement(P, d)
      [] rule = "expression" -> expression(P, d)
      [] rule = "lambda" -> lambda(P, d)
      [] rule = "assignment" -> assignment(P, d)
      [] rule = "or" -> or(P, d)
      [] rule = "and" -> and(P, d)
      [] rule = "equality" -> equality(P, d)
      [] rule = "comparison" -> comparison(P, d)
      [] rule = "term" -> term(P, d)
      [] rule = "factor" -> factor(P, d)
      [] rule = "unary" -> unary(P, d)
      [] rule = "call" -> call(P, d)
      [] rule = "primary" -> primary(P, d)

parse_result(stmts, errs) ==
    IF errs = <<>> THEN [r |-> "Ok", v |-> stmts] ELSE [r |-> "Err", err |-> errs]

-----------------------------------------------------------------------------
(* The pipeline *)

Init ==
    /\ prog \in Programs
    /\ statements = Program(prog)
    /\ phase = "resolve"
    /\ resolver = ResolverNew
    /\ rerrors = <<>>
    /\ ri = 0
    /\ environment = 0
    /\ locals = EmptyMap
    /\ scopes = <<>>
    /\ instances = <<>>
    /\ ctl = CtlOk
    /\ k = <<>>
    /\ output = <<>>
    /\ result = [r |-> "none"]
    /\ scanner = ScannerNew(<<>>)
    /\ tokens = <<>>
    /\ errors = <<>>
    /\ scanned = [r |-> "none"]
    /\ parser = ParserNew(<<>>)
    /\ parse_errors = <<>>
    /\ parsed = [r |-> "none"]

Next ==
    \/ ResolverRun
    \/ ResolverFinish
    \/ Interpret
    \/ StmtExpression
    \/ StmtPrint
    \/ StmtVar
    \/ StmtBlock
    \/ ExecuteBlock
    \/ StmtIf
    \/ StmtWhile
    \/ StmtBreak
    \/ StmtFunction
    \/ StmtReturn
    \/ StmtClass
    \/ ExprLiteral
    \/ ExprGrouping
    \/ ExprUnary
    \/ ExprBinary
    \/ ExprVariable
    \/ ExprAssign
    \/ ExprLogical
    \/ ExprCall
    \/ FunctionCallResult
    \/ ClassCallResult
    \/ ExprLambda
    \/ ExprGet
    \/ ExprSet
    \/ Propagate

Spec == Init /\ [][Next]_vars

-----------------------------------------------------------------------------
(* Scanner::scan_tokens *)

(* scan_tokens: one turn of its loop *)
ScanTokens ==
    /\ phase = "scan"
    /\ ~is_at_end(scanner)
    /\ \E step \in {scan_token_and_then([scanner EXCEPT !.start = scanner.current])} :
           /\ scanner' = step.S
           /\ tokens' = IF step.r = "Ok" /\ step.v # None
                        THEN Append(tokens, step.v[1]) ELSE tokens
           /\ errors' = IF step.r = "Err"
                        THEN Append(errors, step.err) ELSE errors
    /\ UNCHANGED <<scanned, phase, prog, statements, resolverVars, interpreterVars,
                   parserVars>>

(* scan_tokens: after the loop *)
ScanFinish ==
    /\ phase = "scan"
    /\ is_at_end(scanner)
    /\ LET all == Append(tokens, Token(TokenType("Eof"), <<>>, scanner.line))
       IN  /\ tokens' = all
           /\ scanned' = scan_tokens_result(all, errors)
    /\ phase' = "scanned"
    /\ UNCHANGED <<scanner, errors, prog, statements, resolverVars,
                   interpreterVars, parserVars>>

InitScan ==
    /\ \E source \in Sources : scanner = ScannerNew(source)
    /\ tokens = <<>>
    /\ errors = <<>>
    /\ scanned = [r |-> "none"]
    /\ phase = "scan"
    /\ prog = Id("scan", "one", 0, 0)
    /\ statements = <<>>
    /\ resolver = ResolverNew
    /\ rerrors = <<>>
    /\ ri = 0
    /\ environment = 0
    /\ locals = EmptyMap
    /\ scopes = <<>>
    /\ instances = <<>>
    /\ ctl = CtlOk
    /\ k = <<>>
    /\ output = <<>>
    /\ result = [r |-> "none"]
    /\ parser = ParserNew(<<>>)
    /\ parse_errors = <<>>
    /\ parsed = [r |-> "none"]

NextScan ==
    \/ ScanTokens
    \/ ScanFinish

(* the scanner run to its end: a loop whose body returns is taken again *)
SpecScan == InitScan /\ [][NextScan]_vars /\ WF_vars(NextScan)

-----------------------------------------------------------------------------
(* Parser::parse *)

(* Parser::parse: one turn of its loop.  A declaration that does not return *)
(* ends the program.                                                        *)
Parse ==
    /\ phase = "parse"
    /\ ~parser_is_at_end(parser)
    /\ \E res \in {declaration(parser, StackDepth)} :
           /\ parser' = res.P
           /\ statements' = IF res.r = "Ok" THEN Append(statements, res.v)
                            ELSE statements
           /\ parse_errors' = IF res.r = "Err" THEN Append(parse_errors, res.err)
                              ELSE parse_errors
           /\ phase' = IF res.r = "Abort" THEN "aborted" ELSE phase
           /\ parsed' = IF res.r = "Abort" THEN [r |-> "Abort", err |-> res.err]
                        ELSE parsed
    /\ UNCHANGED <<prog, resolverVars, interpreterVars, scannerVars>>

(* Parser::parse: after the loop *)
ParseFinish ==
    /\ phase = "parse"
    /\ parser_is_at_end(parser)
    /\ parsed' = parse_result(statements, parse_errors)
    /\ phase' = "parsed"
    /\ UNCHANGED <<prog, statements, parser, parse_errors, resolverVars,
                   interpreterVars, scannerVars>>

(* The token lists handed to the parser.  Tk is a token without a value,    *)
(* all on line 1; every list ends with Eof.                                 *)

TkLexeme(t) ==
    CASE t = "LeftParen" -> "(" [] t = "RightParen" -> ")"
      [] t = "LeftBrace" -> "{" [] t = "RightBrace" -> "}"
      [] t = "Semicolon" -> ";" [] t = "Comma" -> "," [] t = "Dot" -> "."
      [] t = "Plus" -> "+" [] t = "Minus" -> "-" [] t = "Equal" -> "="
      [] t = "Less" -> "<" [] t = "Var" -> "var" [] t = "Print" -> "print"
      [] t = "Fn" -> "fn" [] t = "Class" -> "class" [] t = "If" -> "if"
      [] t = "Else" -> "else" [] t = "While" -> "while" [] t = "For" -> "for"
      [] t = "Return" -> "return" [] t = "Break" -> "break"
      [] t = "This" -> "this" [] t = "Nil" -> "nil" [] t = "Eof" -> ""

Tk(t) == Token(t, TkLexeme(t), 1)

NumberToken(n) == [token_type |-> "Number", lexeme |-> "1", line |-> 1, value |-> n]

TokenAlphabet ==
    {Tk(t) : t \in {"LeftParen", "RightParen", "LeftBrace", "RightBrace",
                    "Semicolon", "Comma", "Dot", "Plus", "Minus", "Equal", "Less",
                    "Var", "Print", "Fn", "Class", "If", "Else", "While", "For",
                    "Return", "Break", "This", "Nil"}}
    \cup {Ident("a", 1), NumberToken(1)}

ShortTokenLists ==
    UNION {[1..n -> TokenAlphabet] : n \in 0..MaxTokens}

(* xs, repeated n times with `,` between *)
CommaSeparated(x, n) ==
    [i \in 1..(2 * n - 1) |-> IF i % 2 = 1 THEN x ELSE Tk("Comma")]

(* f(1, .., 1); print 1;   with n arguments *)
CallTokens(n) ==
    <<Ident("f", 1), Tk("LeftParen")>> \o CommaSeparated(NumberToken(1), n)
    \o <<Tk("RightParen"), Tk("Semicolon"), Tk("Print"), NumberToken(1),
         Tk("Semicolon")>>

(* fn f(a, .., a) { } print 1;   with n parameters *)
FnTokens(n) ==
    <<Tk("Fn"), Ident("f", 1), Tk("LeftParen")>> \o CommaSeparated(Ident("a", 1), n)
    \o <<Tk("RightParen"), Tk("LeftBrace"), Tk("RightBrace"), Tk("Print"),
         NumberToken(1), Tk("Semicolon")>>

(* { print ); var a; } var b; *)
BlockTokens ==
    <<Tk("LeftBrace"), Tk("Print"), Tk("RightParen"), Tk("Semicolon"),
      Tk("Var"), Ident("a", 1), Tk("Semicolon"), Tk("RightBrace"),
      Tk("Var"), Ident("b", 1), Tk("Semicolon")>>

(* print + var a; *)
RecoveryTokens ==
    <<Tk("Print"), Tk("Plus"), Tk("Var"), Ident("a", 1), Tk("Semicolon")>>

LongTokenLists ==
    {CallTokens(n) : n \in {MaxArguments, MaxArguments + 1}}
    \cup {FnTokens(n) : n \in {MaxArguments, MaxArguments + 1}}
    \cup {BlockTokens, RecoveryTokens}

TokenLists == {Append(ts, Tk("Eof")) : ts \in ShortTokenLists \cup LongTokenLists}

InitParse ==
    /\ \E ts \in TokenLists : parser = ParserNew(ts)
    /\ parse_errors = <<>>
    /\ parsed = [r |-> "none"]
    /\ statements = <<>>
    /\ phase = "parse"
    /\ prog = Id("parse", "one", 0, 0)
    /\ scanner = ScannerNew(<<>>)
    /\ tokens = <<>>
    /\ errors = <<>>
    /\ scanned = [r |-> "none"]
    /\ resolver = ResolverNew
    /\ rerrors = <<>>
    /\ ri = 0
    /\ environment = 0
    /\ locals = EmptyMap
    /\ scopes = <<>>
    /\ instances = <<>>
    /\ ctl = CtlOk
    /\ k = <<>>
    /\ output = <<>>
    /\ result = [r |-> "none"]

NextParse ==
    \/ Parse
    \/ ParseFinish

SpecParse == InitParse /\ [][NextParse]_vars

-----------------------------------------------------------------------------
(* Properties *)

Done(name) == phase = "done" /\ prog.name = name

(* the lines "lo", ..., "hi" as the print sink shows them *)
Numbers(lo, hi) == [i \in 1..(hi - lo + 1) |-> ToString(lo + i - 1)]

(* C1: in nested blocks that each declare x, a read of x yields the value *)
(* of the innermost enclosing block, and after a block has exited the     *)
(* enclosing binding again, whatever the layout over source lines: the    *)
(* three prints are 3, 2, 1.                                              *)
C1_InnermostBinding == Done("nested") => output = <<"3", "2", "1">>

(* C2: the for loop with a declared loop variable finds the initializer's *)
(* binding in condition, body and increment: it prints 0 .. a-1 and ends  *)
(* without a runtime error.                                               *)
C2_ForLoopBinding ==
    Done("for") => (result.r = "Ok" /\ output = Numbers(0, prog.a - 1))

(* the scope d enclosing links above env directly contains name *)
DirectlyContains(env, d, name) ==
    LET target == ancestor(scopes, env, d) IN
    target # 0 /\ name \in DOMAIN scopes[target].variables

(* C3: lookup soundness: whenever a Variable, This or Assign occurrence   *)
(* with a recorded distance d is evaluated, the scope exactly d links     *)
(* above the current environment directly contains the name.              *)
C3_LookupSoundness ==
    /\ (/\ phase = "interpret"
        /\ ctl.m = "eval"
        /\ ctl.e.e \in {"Variable", "This"}
        /\ ctl.e \in DOMAIN locals)
       => DirectlyContains(environment, locals[ctl.e],
             IF ctl.e.e = "Variable" THEN ctl.e.name.lexeme ELSE ctl.e.keyword.lexeme)
    /\ (/\ phase = "interpret"
        /\ ctl.m = "val"
        /\ Top.f = "Assign"
        /\ Top.expr \in DOMAIN locals)
       => DirectlyContains(environment, locals[Top.expr], Top.expr.name.lexeme)

(* C4: closure capture: get() called after its declaration reads the      *)
(* current value of a, so it yields the value last assigned by the        *)
(* declaring scope (a = A) or by another closure over that scope (set(B)).*)
C4_ClosureCapture ==
    (phase = "done" /\ prog.name \in {"closureGlobal", "closureBlock"})
    => (result.r = "Ok" /\ output = <<"0", ToString(prog.a), ToString(prog.b)>>)

C4_Witness ==
    /\ Done("closureBlock")
    /\ prog.a # prog.b
    /\ output = <<"0", ToString(prog.a), ToString(prog.b)>>

(* C5: every call of make creates a fresh scope that the returned closure *)
(* keeps alive: the calls of t yield 1, 2, ... and the closure u from a   *)
(* second call of make counts on its own.                                 *)
C5_FreshScopePerCall ==
    Done("counter")
    => (result.r = "Ok" /\ output = Numbers(1, prog.a) \o <<"1", ToString(prog.a + 1)>>)

C5_Witness ==
    /\ Done("counter")
    /\ prog.a >= 2
    /\ output = Numbers(1, prog.a) \o <<"1", ToString(prog.a + 1)>>

(* C6: static scoping: showA reads the same declaration of a at both      *)
(* calls, although the block declares its own a between the calls.        *)
C6_StaticScoping ==
    (phase = "done" /\ prog.name \in {"staticGlobal", "staticBlock"})
    => (result.r = "Ok" /\ output = <<"outer", "outer">>)

C6_Witness ==
    /\ phase = "done"
    /\ prog.name \in {"staticGlobal", "staticBlock"}
    /\ Len(output) = 2
    /\ \E s \in 1..Len(scopes) :
          /\ "showA" \in DOMAIN scopes[s].variables
          /\ "a" \in DOMAIN scopes[s].variables
          /\ scopes[s].variables["a"] = VString("block")

(* C7: object identity: a field written through a, b, this or a parameter *)
(* is read through every other reference to the instance, and a second    *)
(* instance has fields of its own.                                        *)
C7_ObjectIdentity ==
    Done("identity")
    => (/\ result.r = "Ok"
        /\ output = Numbers(prog.a, prog.a + 3) \o <<ToString(prog.a + 3), ToString(prog.b)>>)

C7_Witness ==
    /\ Done("identity")
    /\ Len(instances) = 2
    /\ instances[1]["x"] = VNumber(prog.a + 3)
    /\ instances[2]["x"] = VNumber(prog.b)
    /\ prog.b # prog.a + 3

(* C8: equality is reflexive for every runtime value: v == v prints true  *)
(* and v != v prints false, whatever kind of value v holds.               *)
C8_EqualityReflexive == Done("equal") => output = <<"true", "false">>

(* the environment execute_block was entered with most recently and has   *)
(* not yet left, the global scope when there is none                      *)
EnclosingBlockEnv ==
    LET blocks == {i \in 1..Len(k) : k[i].f = "Block"} IN
    IF blocks = {} THEN globals
    ELSE k[CHOOSE i \in blocks : \A j \in blocks : j <= i].env

(* C9: once a Block has been left, normally or by an error, a Break or a  *)
(* Return, the current environment is the scope in force before it; after *)
(* interpret has returned it is the global scope.                         *)
C9_BlockRestoresEnvironment ==
    phase \in {"interpret", "done"} => environment = EnclosingBlockEnv

C9_Witness ==
    /\ Done("blocks")
    /\ ExitModes[prog.a] = "error"
    /\ result.r = "Err"
    /\ Len(scopes) = 3
    /\ environment = globals

(* C10: a break in the inner of two nested loops ends the inner loop      *)
(* only: the rest of the outer body runs (print j), the outer condition   *)
(* is evaluated again and the outer loop completes its a iterations.      *)
C10_BreakEndsInnerLoopOnly ==
    Done("nestedWhile")
    => (/\ result.r = "Ok"
        /\ output = [i \in 1..prog.a |-> ToString(prog.b)] \o <<ToString(prog.a)>>)

C10_Witness ==
    /\ Done("nestedWhile")
    /\ prog.a >= 2
    /\ prog.b >= 1
    /\ Len(output) = prog.a + 1

(* C11: a Break signal is always trapped by a loop that lexically encloses *)
(* the break statement: interpret never returns the Break error, and a     *)
(* break executed in the body of a called function does not end a loop of  *)
(* the caller (the loop of the caller completes its a iterations).         *)
C11_BreakNeverLeaks ==
    /\ phase = "done" => ~(result.r = "Err" /\ result.err.kind = "Break")
    /\ Done("breakCall")
       => (result.r = "Ok" /\ output = Numbers(1, prog.a) \o <<"end">>)

(* a Function::call is pending among the callers *)
InsideFunctionCall == \E i \in 1..Len(k) : k[i].f = "FunctionCall"

(* C12: for every program the resolver accepts, interpret never returns    *)
(* the Return signal.  A return outside any function is rejected with      *)
(* ReturnOutsideFunction and the program is not evaluated; a Return is     *)
(* only ever raised while a function call is pending, and that call yields *)
(* the carried value, also from nested blocks and loops (f, K.m), Nil for  *)
(* a bare return (h) or a body that ends without one (g), with the         *)
(* caller's environment restored.                                          *)
C12_ReturnNeverLeaks ==
    /\ phase = "done" => ~(result.r = "Err" /\ result.err.kind = "Return")
    /\ (phase = "interpret" /\ ctl.m = "err" /\ ctl.err.kind = "Return")
       => InsideFunctionCall
    /\ (prog.name = "rejected" /\ prog.a = 2)
       => (/\ phase \in {"resolve", "rejected"}
           /\ phase = "rejected" => rerrors = <<"ReturnOutsideFunction">>
           /\ output = <<>>)
    /\ Done("returns")
       => (/\ result.r = "Ok"
           /\ output = <<ToString(prog.a), "g", "nil", "nil", ToString(prog.b)>>
           /\ environment = globals)

C12_Witness ==
    /\ Done("returns")
    /\ prog.a >= 1
    /\ output = <<ToString(prog.a), "g", "nil", "nil", ToString(prog.b)>>

(* C13: a runtime error raised while the body of an initializer runs,     *)
(* through the class call C(b) or the explicit o.init(b), propagates to   *)
(* the caller: the statement holding the call is abandoned and interpret  *)
(* returns the error, so "after" is never printed.                        *)
C13_InitializerErrorPropagates ==
    Done("initError")
    => (/\ result.r = "Err"
        /\ result.err.kind = "InvalidOperand"
        /\ output = <<>>)

(* the value of the global variable name *)
Global(name) == scopes[globals].variables[name]

(* C14: an initializer that ends normally (x # 1) or by return (x = 1)    *)
(* yields the instance bound as this, through the class call and through  *)
(* the explicit p.init(b): q is the instance p holds, the class call      *)
(* yields a new instance each time, and the fields written through this   *)
(* are read on the instance returned.                                     *)
C14_InitializerYieldsThis ==
    Done("init")
    => (/\ result.r = "Ok"
        /\ output = <<ToString(prog.a), ToString(prog.b), ToString(prog.b),
                      ToString(prog.a)>>
        /\ Global("p").t = "Instance"
        /\ Global("q") = Global("p")
        /\ Len(instances) = 2
        /\ instances[Global("p").fields]["x"] = VNumber(prog.b)
        /\ instances[2]["x"] = VNumber(prog.a)
        /\ Global("p").fields = 1)

C14_Witness ==
    /\ Done("init")
    /\ prog.a = 1
    /\ prog.b = 2
    /\ Global("q") = Global("p")
    /\ instances[1] = Put(Put(EmptyMap, "x", VNumber(2)), "y", VNumber(2))
    /\ instances[2] = Put(EmptyMap, "x", VNumber(1))

(* C15: a call of a Function, NativeFunction or Class with a number of    *)
(* arguments other than its arity (for a Class the arity of the init      *)
(* found along its superclass chain, 0 without one) raises                *)
(* InvalidArgumentCount with the expected and found counts; the callee's  *)
(* body does not run (nothing but "start" is printed), no instance is     *)
(* created and no scope is added or changed.                              *)
C15_ArityMismatch ==
    Done("arity")
    => (/\ result = [r |-> "Err",
                     err |-> [kind |-> "InvalidArgumentCount",
                              expected |-> ArityCalls[prog.a].expected,
                              found |-> ArityCalls[prog.a].found]]
        /\ output = <<"start">>
        /\ instances = <<>>
        /\ Len(scopes) = 1
        /\ DOMAIN scopes[globals].variables = {"clock", "f", "A", "B", "E"})

C15_Witness ==
    /\ Done("arity")
    /\ ArityCalls[prog.a].callee = "B"
    /\ result.r = "Err"
    /\ result.err.kind = "InvalidArgumentCount"
    /\ result.err.expected = 1
    /\ result.err.found = 0

(* the names each scope of the heap sc holds *)
Names(sc) == [s \in 1..Len(sc) |-> DOMAIN sc[s].variables]

(* the evaluator is about to perform the assignment of an Assign *)
AtAssign == phase = "interpret" /\ ctl.m = "val" /\ Top.f = "Assign"

(* the scopes from env up along the enclosing links *)
RECURSIVE Chain(_, _)
Chain(sc, env) == IF env = 0 THEN {} ELSE {env} \cup Chain(sc, enclosing(sc, env))

(* no scope of the chain that the assignment expr is directed to (by its  *)
(* recorded distance, to the globals without one) holds the name          *)
Unbound(expr) ==
    LET from == IF expr \in DOMAIN locals
                THEN ancestor(scopes, environment, locals[expr])
                ELSE globals
    IN  \A s \in Chain(scopes, from) : expr.name.lexeme \notin DOMAIN scopes[s].variables

(* the evaluator is about to run a var, function or class definition *)
AtDefinition ==
    /\ phase = "interpret"
    /\ \/ ctl.m = "exec" /\ ctl.s.s \in {"Var", "Function", "Class"}
       \/ ctl.m = "val" /\ Top.f \in {"Var", "ClassSuper"}

(* C16: assignment never creates a binding.  Performing an assignment     *)
(* leaves the names of every scope as they are, and when the name has no  *)
(* binding (in the chain the binding table designates, in the globals     *)
(* when the occurrence is unrecorded) it raises UndefinedVariable; the    *)
(* names of an existing scope change only by a var, function or class     *)
(* definition (parameters and this are defined in scopes created for      *)
(* them).                                                                 *)
C16_AssignNeverCreates ==
    [][ /\ AtAssign => Names(scopes') = Names(scopes)
        /\ (AtAssign /\ Unbound(Top.expr))
           => (ctl'.m = "err" /\ ctl'.err.kind = "UndefinedVariable")
        /\ (\E s \in 1..Len(scopes) : Names(scopes')[s] # Names(scopes)[s])
           => AtDefinition ]_vars

C16_Witness ==
    /\ Done("assignUndefined")
    /\ prog.a = 4
    /\ result = [r |-> "Err", err |-> [kind |-> "UndefinedVariable", name |-> "y"]]
    /\ Assign("y", 1, Num(1)) \in DOMAIN locals
    /\ Names(scopes) = << {"clock"}, {}, {"y"} >>

(* C17: a var declaration whose initializer reads the variable being       *)
(* declared (var a = a;) is rejected by the resolver with                  *)
(* SelfReferencedInitializer, at top level as well as in a block, a        *)
(* function body or a method body, and the program is not evaluated.       *)
C17_SelfReferencedInitializer ==
    prog.name = "selfInit"
    => (/\ phase \in {"resolve", "rejected"}
        /\ phase = "rejected" => rerrors = <<"SelfReferencedInitializer">>
        /\ output = <<>>)

(* C18: for is equivalent to its while desugaring.  What the parser makes *)
(* of `for (I; C; U) B` is the statement of the loop written out with     *)
(* while: Block[I, While(C, Block[B, Expression(U)])], `true` for an      *)
(* omitted C, B itself as the loop body for an omitted U, no outer Block  *)
(* for an omitted I.  Evaluated, the for program and the written-out      *)
(* program give the same prints (0 .. n-1, end), the same result and the  *)
(* same bindings (i is a global exactly when it was declared before the   *)
(* loop).                                                                 *)
C18_ForDesugaring ==
    /\ prog.name = "desugarFor"
       => statements = ProgDesugarWhile([prog EXCEPT !.name = "desugarWhile"])
    /\ (/\ phase = "done"
        /\ prog.name \in {"desugarFor", "desugarWhile"}
        /\ prog.layout = "spread")
       => (/\ result.r = "Ok"
           /\ output = Numbers(0, prog.b - 1) \o <<"end">>
           /\ ("i" \in DOMAIN scopes[globals].variables) <=> OmitsInitializer(prog)
           /\ OmitsInitializer(prog) => Global("i") = VNumber(prog.b))

C18_Witness ==
    /\ Done("desugarFor")
    /\ prog.layout = "spread"
    /\ prog.a = 0
    /\ prog.b >= 2
    /\ output = Numbers(0, prog.b - 1) \o <<"end">>
    /\ "i" \notin DOMAIN scopes[globals].variables

(* the bytes some lexical rule of the scanner begins with *)
Lexical(c) ==
    \/ c \in {40, 41, 123, 125, 44, 46, 45, 43, 59, 42, 47}    \* ( ) { } , . - + ; * /
    \/ c \in {33, 61, 60, 62}                                  \* ! = < >
    \/ c \in {32, 13, 9, 10, 34}                               \* space \r \t \n "
    \/ c \in 48..57 \/ c \in 65..90 \/ c \in 97..122 \/ c = 95

NotLexical(c) == ~Lexical(c)

(* a source with neither a string nor a comment in it *)
Plain(source) == \A i \in 1..Len(source) : source[i] \notin {34, 47}

(* the lexemes of toks, from the i-th on, lie in source one after the other,
   none before position from *)
RECURSIVE InSourceOrder(_, _, _, _)
InSourceOrder(toks, i, source, from) ==
    \/ i > Len(toks)
    \/ LET lexeme == toks[i].lexeme IN
       /\ lexeme # <<>>
       /\ \E p \in from..Len(source) :
             /\ p + Len(lexeme) - 1 <= Len(source)
             /\ SubSeq(source, p, p + Len(lexeme) - 1) = lexeme
             /\ InSourceOrder(toks, i + 1, source, p + Len(lexeme))

IsEof(token) == token.token_type = TokenType("Eof")

ScanReturn ==
    phase = "scanned" =>
        /\ is_at_end(scanner)
        /\ scanned.r \in {"Ok", "Err"}
        /\ scanned.r = "Err" <=> errors # <<>>
        /\ scanned.r = "Err" => scanned.errors = errors
        /\ Plain(scanner.source) =>
              /\ \A i \in 1..Len(errors) : errors[i].kind = "UnexpectedCharacter"
              /\ [i \in 1..Len(errors) |-> errors[i].c]
                    = SelectSeq(scanner.source, NotLexical)
        /\ scanned.r = "Ok" =>
              LET toks == scanned.tokens
                  n == Len(toks)
              IN  /\ n >= 1
                  /\ IsEof(toks[n])
                  /\ \A i \in 1..(n - 1) : ~IsEof(toks[i])
                  /\ InSourceOrder(SubSeq(toks, 1, n - 1), 1, scanner.source, 1)
                  /\ \A i \in 1..(n - 1) : toks[i].line <= toks[i + 1].line

ScanStep ==
    (phase = "scan" /\ phase' = "scan")
    => /\ scanner'.start = scanner.current
       /\ scanner'.start < scanner'.current
       /\ scanner'.current <= Len(scanner.source)
       /\ scanner'.source = scanner.source

(* C19: scan_tokens terminates on every byte buffer; every turn of its loop
   starts where the one before stopped, consumes at least one byte and stays
   inside the source (start < current <= length); it returns the errors if
   and only if there was a lexical error, every one of them (in a source
   without strings and comments: one for each byte no lexical rule begins
   with, in order), and otherwise the tokens, in source order, with a single
   Eof token, the last one. *)
C19_ScanTokens ==
    /\ []ScanReturn
    /\ [][ScanStep]_vars
    /\ <>(phase = "scanned")

C19_Witness ==
    /\ phase = "scanned"
    /\ scanned.r = "Err"
    /\ Len(scanned.errors) = 2
    /\ \E i \in 1..Len(tokens) : tokens[i].token_type = TokenType("Dot")

(* C21: when the name of an occurrence is declared in several enclosing    *)
(* resolver scopes, resolve_local records the distance to the innermost    *)
(* one; when no scope holds the name it records nothing.  In               *)
(*   var x = 1; { var x = 2; { var x = 3; print x; } print x; } print x;   *)
(* with every statement on its own line, the three reads get 0, 0 and no   *)
(* entry.                                                                  *)
C21_ResolveLocalInnermost ==
    (phase = "interpret" /\ prog.name = "nested" /\ prog.layout = "stmt")
    => /\ Variable("x", 4) \in DOMAIN locals
       /\ locals[Variable("x", 4)] = 0
       /\ Variable("x", 5) \in DOMAIN locals
       /\ locals[Variable("x", 5)] = 0
       /\ Variable("x", 6) \notin DOMAIN locals

(* the reads of i in                                                        *)
(*   for (var i = 0; i < a + 1; i = i + 1) { if (i == a) break; print i; }  *)
(* <<line in layout "stmt", line in layout "spread", scopes between the     *)
(* read and the block of the initializer>>: condition, increment, the       *)
(* condition of the `if`, the print                                         *)
ReadsOfI == { <<1, 2, 0>>, <<1, 3, 1>>, <<2, 4, 2>>, <<3, 5, 2>> }

(* C22: occurrences of one name at different positions of the source are  *)
(* distinct keys of the binding table, also on one line: after resolution  *)
(* each read of i in the for loop has its own distance, however the loop   *)
(* is laid out over lines.                                                 *)
C22_OccurrencesAreDistinctKeys ==
    (phase = "interpret" /\ prog.name = "for")
    => \A r \in ReadsOfI :
          LET occurrence == Variable("i", Line(prog.layout, r[1], r[2])) IN
          /\ occurrence \in DOMAIN locals
          /\ locals[occurrence] = r[3]

(* the scope exactly distance links above env, and nothing above it *)
ScopeAt(sc, env, distance) == ancestor(sc, env, distance)

LookupExactlyAt(sc, env, distance, name) ==
    LET target == ScopeAt(sc, env, distance) IN
    IF target # 0 /\ name \in DOMAIN sc[target].variables
    THEN Some(sc[target].variables[name])
    ELSE None

AssignExactlyAt(sc, env, distance, name, value) ==
    LET target == ScopeAt(sc, env, distance) IN
    IF target # 0 /\ name \in DOMAIN sc[target].variables
    THEN [ok |-> TRUE, scopes |-> [sc EXCEPT ![target].variables[name] = value]]
    ELSE [ok |-> FALSE, scopes |-> sc]

(* C23: lookup_at(d, name) yields the value name has in the scope exactly  *)
(* d links above the receiver, and none when that scope does not hold the  *)
(* name; assign_at(d, name, v) writes that scope only, and returns false   *)
(* when it does not hold the name.  Stated wherever the evaluator applies  *)
(* them: at a Variable or This with a recorded distance, and at an Assign  *)
(* with a recorded distance once its value is known.                       *)
C23_LookupAtExactScope ==
    /\ (/\ phase = "interpret"
        /\ ctl.m = "eval"
        /\ ctl.e.e \in {"Variable", "This"}
        /\ ctl.e \in DOMAIN locals)
       => LET name == IF ctl.e.e = "Variable" THEN ctl.e.name.lexeme
                      ELSE ctl.e.keyword.lexeme
          IN  lookup_at(scopes, environment, locals[ctl.e], name)
                 = LookupExactlyAt(scopes, environment, locals[ctl.e], name)
    /\ (/\ phase = "interpret"
        /\ ctl.m = "val"
        /\ Top.f = "Assign"
        /\ Top.expr \in DOMAIN locals)
       => assign_at(scopes, environment, locals[Top.expr],
                    Top.expr.name.lexeme, ctl.v)
             = AssignExactlyAt(scopes, environment, locals[Top.expr],
                               Top.expr.name.lexeme, ctl.v)

(* C26: reading o.name yields the field when the instance has one, even    *)
(* if its class has a method of that name; otherwise the first method of   *)
(* that name along class, superclass, superclass's superclass, bound to o; *)
(* otherwise UndefinedProperty; on a non-instance PropertyOnNonObject.     *)
(* In the program "property": o.m() is 1 for an A and 2 for a B or a C,    *)
(* o.n() (found in A) reads o's own v, o.m is 7 once the field m is set    *)
(* while another instance still has the method, o.zz is undefined and      *)
(* o.v.x reads a property of a number.                                     *)
C26_PropertyLookup ==
    Done("property")
    => /\ output = << IF PropertyClass(prog) = "A" THEN "1" ELSE "2",
                      ToString(prog.b), "7", "1" >>
       /\ result.r = "Err"
       /\ result.err.kind = IF prog.a <= 3 THEN "UndefinedProperty"
                            ELSE "PropertyOnNonObject"
       /\ result.err.property = IF prog.a <= 3 THEN "zz" ELSE "x"
       /\ result.err.value.t = IF prog.a <= 3 THEN "Instance" ELSE "Number"

C26_Witness ==
    /\ Done("property")
    /\ PropertyClass(prog) = "C"
    /\ prog.b = 2
    /\ output = <<"2", "2", "7", "1">>
    /\ result.r = "Err"
    /\ result.err.kind = "UndefinedProperty"

(* nil and false are the falsey values *)
Falsey(lit) == lit \in {LitNil, LitBool(FALSE)}

(* how the print sink shows a literal *)
Shown(lit) ==
    CASE lit.t = "Nil" -> "nil"
      [] lit.t = "Bool" -> IF lit.b THEN "true" ELSE "false"
      [] lit.t = "Number" -> ToString(lit.n)
      [] lit.t = "String" -> lit.s

(* the left operand decides `left or right` when truthy, `left and right`  *)
(* when falsey                                                             *)
LeftDecides(p) ==
    IF p.b = 1 THEN ~Falsey(LogicalLefts[p.a]) ELSE Falsey(LogicalLefts[p.a])

(* C27: logical operators short-circuit and yield the deciding operand's   *)
(* own value.  In `print <left> or side(); print n;` and the same with     *)
(* `and`, where side() counts its calls in n and returns "r": when the     *)
(* left operand decides, it is printed as it is (nil, false, true, 0, the  *)
(* empty string) and n stays 0, at every moment of the run; otherwise "r"  *)
(* is printed and n is 1.                                                  *)
C27_ShortCircuit ==
    /\ (prog.name = "logical" /\ phase \in {"interpret", "done"}
        /\ LeftDecides(prog) /\ "n" \in DOMAIN scopes[globals].variables)
       => Global("n") = VNumber(0)
    /\ Done("logical")
       => /\ result.r = "Ok"
          /\ output = IF LeftDecides(prog)
                      THEN << Shown(LogicalLefts[prog.a]), "0" >>
                      ELSE << "r", "1" >>

C27_Witness ==
    /\ Done("logical")
    /\ LogicalLefts[prog.a] = LitNumber(0)
    /\ prog.b = 1
    /\ output = <<"0", "0">>

(* what the calls of the program "callOrder" print after "start", and how  *)
(* the program ends                                                        *)
CallOrderExpected ==
    << [printed |-> <<>>, ends |-> "NotCallable"],
       [printed |-> <<"nil">>, ends |-> "NotCallable"],
       [printed |-> <<"<fn f>", "1", "2", "body", "after">>, ends |-> "Ok"],
       [printed |-> <<"1">>, ends |-> "InvalidArgumentCount"],
       [printed |-> <<"1", "2", "3">>, ends |-> "InvalidArgumentCount"],
       [printed |-> <<"1">>, ends |-> "UndefinedVariable"] >>

(* C28: in a call the callee is evaluated first and must be callable       *)
(* before any argument is evaluated; the arguments are then evaluated from *)
(* left to right, and the arity is checked after all of them.  With        *)
(* side(v) printing v: a string callee prints nothing, a callee side(nil)  *)
(* prints nil and no argument, both NotCallable; side(f)(side(1), side(2)) *)
(* prints the callee, 1, 2 and then runs f; f with one or three arguments  *)
(* prints them all before InvalidArgumentCount; an argument that fails     *)
(* stops the ones to its right.                                            *)
C28_CallOrder ==
    Done("callOrder")
    => LET x == CallOrderExpected[prog.a] IN
       /\ output = <<"start">> \o x.printed
       /\ IF x.ends = "Ok" THEN result.r = "Ok"
          ELSE result.r = "Err" /\ result.err.kind = x.ends
       /\ x.ends = "InvalidArgumentCount"
          => (result.err.expected = 2 /\ result.err.found = Len(x.printed))

C28_Witness ==
    /\ Done("callOrder")
    /\ prog.a = 5
    /\ output = <<"start", "1", "2", "3">>
    /\ result.r = "Err"
    /\ result.err.kind = "InvalidArgumentCount"

(* the resolver is as Resolver::new leaves it, but for the binding table *)
ResolverAtTopLevel ==
    /\ resolver.scopes = <<>>
    /\ resolver.current_fn = "None"
    /\ resolver.current_class = "None"

(* C29: whenever Resolver::run is between two top-level statements, after  *)
(* visit_stmt has returned Ok or an error, the scope stack is empty and    *)
(* current_fn and current_class are None; so a top-level `return` or       *)
(* `this` that follows a faulty item is reported after that item's error.  *)
C29_ResolverStateAfterItem ==
    /\ phase \in {"resolve", "rejected"} => ResolverAtTopLevel
    /\ (prog.name = "faulty" /\ phase = "rejected")
       => rerrors = << FaultyItemError(prog),
                       IF prog.b = 1 THEN "ReturnOutsideFunction"
                       ELSE "ThisOutsideClass" >>
    /\ prog.name = "faulty" => phase \in {"resolve", "rejected"}

-----------------------------------------------------------------------------
(* Claims about the parser *)

Given(ts) == parser.tokens = Append(ts, Tk("Eof"))

(* the turn of the loop of parse that is about to be taken, up to the      *)
(* point where its declaration has its result                              *)
Raised == declaration_result(parser, StackDepth - 1)

(* b is a boundary for an error raised with the cursor at c: just after a  *)
(* `;` that was not yet consumed, just before a keyword, or the end        *)
Boundary(c, b) ==
    \/ b > c /\ parser.tokens[b].token_type = "Semicolon"
    \/ parser.tokens[b + 1].token_type \in SynchronizeKeywords \cup {"Eof"}

FirstBoundary(c) ==
    CHOOSE b \in c..(Len(parser.tokens) - 1) :
        /\ Boundary(c, b)
        /\ \A b2 \in c..(b - 1) : ~Boundary(c, b2)

NoBlock == \A i \in 1..Len(parser.tokens) : parser.tokens[i].token_type # "LeftBrace"

VarStmt(name) == [s |-> "Var", name |-> Ident(name, 1), initializer |-> None]

(* the declaration of this turn fails and the parser is left at the first  *)
(* boundary after the error                                                *)
ResumesAtFirstBoundary ==
    (phase = "parse" /\ ~parser_is_at_end(parser) /\ NoBlock /\ Raised.r = "Err")
    => parser'.current = FirstBoundary(Raised.P.current)

RecoversDeclarations ==
    /\ (phase = "parsed" /\ Given(RecoveryTokens))
       => (Len(parse_errors) = 1 /\ statements = << VarStmt("a") >>)
    /\ (phase = "parsed" /\ Given(BlockTokens))
       => (/\ Len(parse_errors) = 1
           /\ statements # <<>>
           /\ statements[Len(statements)] = VarStmt("b"))

(* C24: after a parse error in a declaration the parser resumes at the     *)
(* first boundary after the error, just after the next `;` or just before  *)
(* the next class, fn, var, for, if, while, print or return, and skips no  *)
(* token from there on: after `print +` the declaration `var a;` is        *)
(* parsed, and after an error inside a block the declarations that follow  *)
(* it are parsed with no further error.                                    *)
C24_SynchronizeStopsAtFirstBoundary ==
    []RecoversDeclarations /\ [][ResumesAtFirstBoundary]_vars

ArgumentsOf(stmt) ==
    IF stmt.s = "Function" THEN stmt.declaration.params ELSE stmt.expr.arguments

TooManyRaised ==
    /\ phase = "parse"
    /\ ~parser_is_at_end(parser)
    /\ Raised.r = "Err"
    /\ Raised.err.kind = "TooManyArguments"

AcceptsUpToMaxArguments ==
    /\ (phase = "parsed" /\ (Given(CallTokens(MaxArguments)) \/ Given(FnTokens(MaxArguments))))
       => (/\ parsed.r = "Ok"
           /\ Len(parsed.v) = 2
           /\ Len(ArgumentsOf(parsed.v[1])) = MaxArguments)
    /\ (phase = "parsed" /\ (Given(CallTokens(MaxArguments + 1))
                                 \/ Given(FnTokens(MaxArguments + 1))))
       => (/\ parsed.r = "Err"
           /\ parsed.err[1].kind = "TooManyArguments")

(* C25: a call with 255 arguments and a function with 255 parameters are   *)
(* accepted; with 256 the parser reports TooManyArguments, and in the turn *)
(* that reports it the cursor stays where the error was raised: no token   *)
(* is skipped by synchronize.                                              *)
C25_TooManyIsNotSynchronising ==
    /\ []AcceptsUpToMaxArguments
    /\ [][TooManyRaised => parser'.current = Raised.P.current]_vars

ParserInRange ==
    phase \in {"parse", "parsed", "aborted"}
    => /\ parser.current < Len(parser.tokens)
       /\ phase # "aborted"
       /\ phase = "parsed"
          => /\ parsed.r = "Ok" <=> parse_errors = <<>>
             /\ parsed.r = "Ok" => parsed.v = statements
             /\ parsed.r = "Err" => parsed.err = parse_errors

(* C30: parse returns for every token list that ends with Eof.  No call of *)
(* declaration fails to return, neither by a panic of previous() with the  *)
(* cursor at 0 nor by a recursion without end; every turn of the loop      *)
(* moves the cursor forward, and never past Eof; the result is the         *)
(* statement list exactly when no error was recorded.                      *)
C30_ParseTerminates ==
    /\ []ParserInRange
    /\ [][phase = "parse" /\ phase' = "parse" => parser'.current > parser.current]_vars

====
